---- MODULE Spec2Model ----
(***************************************************************************)
(* Handle ownership and callback bridging of phidget-rs.                   *)
(*                                                                         *)
(* The model follows the DigitalInput wrapper in its two revisions:        *)
(*   "devices"  src/src/devices/digital_input.rs  (three callback slots,   *)
(*              close-on-drop, From<handle>, mutable views in the attach   *)
(*              and detach trampolines)                                    *)
(*   "legacy"   src/src/digital_io.rs  (one slot, explicit handler removal)*)
(* together with the PhidgetRef view of src/src/phidget.rs.                *)
(*                                                                         *)
(* The phidget22 library is the environment.  Its contract, as the code    *)
(* relies on it: a call with return code 0 on a live handle has its        *)
(* effect, a call that returns non-zero has none; a registered trampoline  *)
(* may be invoked at any time on the library's own thread, one invocation  *)
(* at a time; delete and a successful handler removal return only when no  *)
(* invocation for that handle is running, and no invocation starts on a    *)
(* deleted handle.  A call with a handle that was already deleted is       *)
(* undefined behaviour: it is recorded and has no modelled effect.         *)
(***************************************************************************)
EXTENDS Integers, Sequences, FiniteSets, TLC

\* Bounds of the model
MaxHandles == 2
MaxWrappers == 2
MaxClosures == 2
MaxViews == 4
MaxCloses == 2
MaxHits == 2

\* ptr::null_mut(), and an empty Option<*mut c_void> slot
NULL == 0
\* ReturnCode::Ok and one of the failure codes
Ok == 0
Perm == 1
RetCodes == {Ok, Perm}

\* the timeouts open_wait is called with on the device wrappers: 5 s, and one
\* whole second more than u32 milliseconds hold
WaitTimes == {[secs |-> 5, nanos |-> 0], [secs |-> 4294968, nanos |-> 0]}

Handles == 1..MaxHandles
Wrappers == 1..MaxWrappers
Closures == 1..MaxClosures
Slots == {"cb", "attach_cb", "detach_cb"}
Kinds == {"devices", "legacy", "manager"}

VARIABLES
    wrapper,      \* the wrapper objects: lifecycle, revision, chan, callback slots
    native,       \* the library's channel objects, by handle
    closure,      \* the double-boxed closures on the heap, by context pointer
    inflight,     \* the trampoline invocation running on the library's thread
    pc,           \* position of the user thread inside drop / remove
    refs,         \* handle values held by PhidgetRef objects
    deleteCalls,  \* per handle value: how often it was passed to the native delete
    staleCalls,   \* whether a native call was issued with a handle after its deletion
    dropLog       \* what the destructor that ran last did, in order

\* PhidgetRef views and promoted handles over one device handle
VARIABLES
    views,        \* number of PhidgetRef objects alive
    generics,     \* number of GenericPhidget objects alive
    count         \* native lifetime calls made for the handle, and views made / dropped

\* One wrapper seen through its public calls
VARIABLES
    last,         \* the last call: operation, argument, native calls made, value returned
    chanOpen,     \* the library's own open flag of the channel
    closedCloses  \* close() calls in a row on a channel the library has as closed

\* One trampoline called by the library with arbitrary arguments
VARIABLES
    tcall,        \* the arguments of the last trampoline call
    seen,         \* the closure invocations that call made, in order
    hits          \* per closure: how often it has been invoked

\* ReturnCode::result applied to a code of the library
VARIABLES
    rcIn,         \* the code passed in
    rcOut         \* the Result it gave

\* One string-returning query
VARIABLES
    strq          \* the query made last: what the library answered, what it returned

\* One wrapper and the addressing filters of its channel
VARIABLES
    props,        \* the library's properties of the channel
    fhist,        \* the calls made on the wrapper since new(), with their results
    fcall         \* the set_filter call made last

\* One class name parsed from text
VARIABLES
    parse         \* the from_str call made last: the type, the text, the result

\* One Stepper wrapper and its callbacks
VARIABLES
    stLife,       \* "unused", "live" or "dropped"
    stSlot,       \* the three Option<*mut c_void> fields of the wrapper
    stReg,        \* the context pointer the library holds for each event
    stHeap        \* the double-boxed closures made for the wrapper

\* One call of a method that converts its argument before the native call
VARIABLES
    mcall         \* the call made last: the method, its argument, the native calls, the result

devVars == <<wrapper, native, closure, inflight, pc, refs, deleteCalls, staleCalls, dropLog>>
refVars == <<views, generics, count>>
apiVars == <<last, chanOpen, closedCloses>>
trampVars == <<tcall, seen, hits>>
codeVars == <<rcIn, rcOut>>
strVars == <<strq>>
filtVars == <<props, fhist, fcall>>
parseVars == <<parse>>
stepperVars == <<stLife, stSlot, stReg, stHeap>>
callVars == <<mcall>>
moreVars == <<codeVars, strVars, filtVars, parseVars, stepperVars, callVars>>
baseVars == <<devVars, refVars, apiVars, trampVars>>
restVars == <<refVars, apiVars, trampVars, moreVars>>
vars == <<devVars, restVars>>

NoSlots == [s \in Slots |-> NULL]
NoCall == [h |-> NULL, slot |-> "cb", ctx |-> NULL]
Idle == [op |-> "idle", w |-> 0]

\* ---------------------------------------------------------------------
\* The phidget22 library

\* h names a channel object that exists
Valid(h) == h # NULL /\ native[h].created /\ ~native[h].deleted
\* h dangles: the object it named was deleted
Stale(h) == h # NULL /\ native[h].deleted
\* a native call was issued with handle h
Touch(stale, h) == stale \/ Stale(h)
\* the code the caller sees: a null handle is always refused
Ret(h, rc) == IF h = NULL THEN Perm ELSE rc
\* the call took effect
Took(h, rc) == Valid(h) /\ rc = Ok

\* PhidgetXxx_create: first unused channel object
FreshHandle == CHOOSE h \in Handles : ~native[h].created /\ \A g \in Handles : g < h => native[g].created
HasFreshHandle == \E h \in Handles : ~native[h].created

\* Phidget_setOnXxxHandler(h, fptr, ctx)
NativeSetHandler(nat, h, s, ctx, rc) ==
    IF Took(h, rc) THEN [nat EXCEPT ![h].reg[s] = ctx] ELSE nat

\* Phidget_open / Phidget_close
NativeSetOpen(nat, h, rc, val) ==
    IF Took(h, rc) THEN [nat EXCEPT ![h].open = val] ELSE nat

\* PhidgetXxx_delete(&mut h): the library drops the channel and stops delivery
NativeDelete(nat, h) ==
    IF Valid(h) THEN [nat EXCEPT ![h].deleted = TRUE, ![h].open = FALSE] ELSE nat

\* an invocation for handle h is running on the library's thread
Running(h) == inflight # NoCall /\ inflight.h = h

\* ---------------------------------------------------------------------
\* The callback box protocol

HasFreshClosure == \E c \in Closures : closure[c].st = "unalloc"
\* Box::into_raw(Box::new(Box::new(cb))): the next context pointer
FreshClosure == CHOOSE c \in Closures : closure[c].st = "unalloc" /\ \A d \in Closures : d < c => closure[d].st # "unalloc"

Boxed(w, s, ret) ==
    [st |-> "live", w |-> w, slot |-> s, ok |-> (ret = Ok), frees |-> 0]

\* drop_cb / drop_callback: frees the closure behind a populated slot
drop_cb_leak(cl, ctx) == cl
drop_cb(cl, ctx) ==
    IF ctx # NULL
    THEN [cl EXCEPT ![ctx].st = "freed", ![ctx].frees = @ + 1]
    ELSE cl

\* ---------------------------------------------------------------------
\* Wrapper construction

FreshWrapper == CHOOSE w \in Wrappers : wrapper[w].st = "unused" /\ \A v \in Wrappers : v < w => wrapper[v].st # "unused"
HasFreshWrapper == \E w \in Wrappers : wrapper[w].st = "unused"
Live(w) == wrapper[w].st = "live"

\* DigitalInput::new(): the result of create is not looked at
new(kind, rc) ==
    /\ pc = Idle
    /\ HasFreshWrapper
    /\ rc = Ok => HasFreshHandle
    /\ LET w == FreshWrapper
           h == IF rc = Ok THEN FreshHandle ELSE NULL
       IN /\ wrapper' = [wrapper EXCEPT ![w] = [st |-> "live", kind |-> kind, chan |-> h, slot |-> NoSlots]]
          /\ native' = IF h # NULL THEN [native EXCEPT ![h].created = TRUE] ELSE native
    /\ UNCHANGED <<restVars, closure, inflight, pc, refs, deleteCalls, staleCalls, dropLog>>

\* DigitalInput::from(*src.as_channel())
from(src) ==
    /\ pc = Idle
    /\ HasFreshWrapper
    /\ Live(src) /\ wrapper[src].kind = "devices"
    /\ wrapper' = [wrapper EXCEPT ![FreshWrapper] =
                     [st |-> "live", kind |-> "devices", chan |-> wrapper[src].chan, slot |-> NoSlots]]
    /\ UNCHANGED <<restVars, native, closure, inflight, pc, refs, deleteCalls, staleCalls, dropLog>>

\* ---------------------------------------------------------------------
\* Phidget::open / Phidget::close: the wrapper keeps no state of its own

open(w, rc) ==
    /\ pc = Idle
    /\ Live(w)
    /\ native' = NativeSetOpen(native, wrapper[w].chan, rc, TRUE)
    /\ staleCalls' = Touch(staleCalls, wrapper[w].chan)
    /\ UNCHANGED <<restVars, wrapper, closure, inflight, pc, refs, deleteCalls, dropLog>>

\* a close that also brings the wrapper back to what new() returned
close_to_created(w, rc) ==
    /\ pc = Idle
    /\ Live(w)
    /\ native' = NativeSetOpen(native, wrapper[w].chan, rc, FALSE)
    /\ staleCalls' = Touch(staleCalls, wrapper[w].chan)
    /\ wrapper' = [wrapper EXCEPT ![w].slot = NoSlots]
    /\ UNCHANGED <<restVars, closure, inflight, pc, refs, deleteCalls, dropLog>>
close(w, rc) ==
    /\ pc = Idle
    /\ Live(w)
    /\ native' = NativeSetOpen(native, wrapper[w].chan, rc, FALSE)
    /\ staleCalls' = Touch(staleCalls, wrapper[w].chan)
    /\ UNCHANGED <<restVars, wrapper, closure, inflight, pc, refs, deleteCalls, dropLog>>

\* ---------------------------------------------------------------------
\* Handler registration

\* self.cb = Some(ctx) is stored before the native call, whatever it returns;
\* the pointer the slot held before is overwritten
set_on_state_change_handler(w, rc) ==
    /\ pc = Idle
    /\ Live(w)
    /\ HasFreshClosure
    /\ LET ctx == FreshClosure
           h == wrapper[w].chan
       IN /\ closure' = [closure EXCEPT ![ctx] = Boxed(w, "cb", Ret(h, rc))]
          /\ wrapper' = [wrapper EXCEPT ![w].slot["cb"] = ctx]
          /\ native' = NativeSetHandler(native, h, "cb", ctx, rc)
          /\ staleCalls' = Touch(staleCalls, h)
    /\ UNCHANGED <<restVars, inflight, pc, refs, deleteCalls, dropLog>>

\* the native call comes first; on a non-zero code `?` returns before the
\* slot is written, and the raw pointer is dropped on the floor
SetAfterCall(w, s, rc) ==
    /\ pc = Idle
    /\ Live(w) /\ wrapper[w].kind = "devices"
    /\ HasFreshClosure
    /\ LET ctx == FreshClosure
           h == wrapper[w].chan
       IN /\ closure' = [closure EXCEPT ![ctx] = Boxed(w, s, Ret(h, rc))]
          /\ wrapper' = IF Ret(h, rc) = Ok THEN [wrapper EXCEPT ![w].slot[s] = ctx] ELSE wrapper
          /\ native' = NativeSetHandler(native, h, s, ctx, rc)
          /\ staleCalls' = Touch(staleCalls, h)
    /\ UNCHANGED <<restVars, inflight, pc, refs, deleteCalls, dropLog>>

set_on_attach_handler(w, rc) == SetAfterCall(w, "attach_cb", rc)

set_on_detach_handler(w, rc) == SetAfterCall(w, "detach_cb", rc)

\* legacy remove_on_state_change_handler, up to the return of the native call
\* (handler None, context null); drop_callback follows whatever it returned
remove_on_state_change_handler(w, rc) ==
    /\ pc = Idle
    /\ Live(w) /\ wrapper[w].kind = "legacy"
    /\ LET h == wrapper[w].chan
       IN /\ Took(h, rc) => ~(Running(h) /\ inflight.slot = "cb")
          /\ native' = NativeSetHandler(native, h, "cb", NULL, rc)
          /\ staleCalls' = Touch(staleCalls, h)
    /\ pc' = [op |-> "drop_callback", w |-> w]
    /\ UNCHANGED <<restVars, wrapper, closure, inflight, refs, deleteCalls, dropLog>>

\* a drop_callback that reads the slot without take(): the pointer stays behind
drop_callback_keep ==
    /\ pc.op = "drop_callback"
    /\ closure' = drop_cb(closure, wrapper[pc.w].slot["cb"])
    /\ pc' = Idle
    /\ UNCHANGED <<restVars, wrapper, native, inflight, refs, deleteCalls, staleCalls, dropLog>>
\* legacy drop_callback, as called from remove_on_state_change_handler
drop_callback ==
    /\ pc.op = "drop_callback"
    /\ closure' = drop_cb(closure, wrapper[pc.w].slot["cb"])
    /\ wrapper' = [wrapper EXCEPT ![pc.w].slot["cb"] = NULL]
    /\ pc' = Idle
    /\ UNCHANGED <<restVars, native, inflight, refs, deleteCalls, staleCalls, dropLog>>

\* ---------------------------------------------------------------------
\* Destruction

LogEv(ev, arg) == [ev |-> ev, arg |-> arg]
\* the order of the drop_cb calls in Drop
SlotOrder == <<"cb", "attach_cb", "detach_cb">>
Populated(w) == {s \in Slots : wrapper[w].slot[s] # NULL}

\* what `if let Ok(true) = self.is_open()` can see; the legacy Drop does not probe
ProbeOutcomes(kind, h) ==
    IF kind = "legacy" THEN {"none"}
    ELSE IF h = NULL THEN {"err"}
    ELSE IF Valid(h) THEN {"err", IF native[h].open THEN "true" ELSE "false"}
    ELSE {"err", "true", "false"}

\* a Drop that closes and never deletes, as the one of PhidgetManager
DropNativeCloseOnly(nat, h, probe, closeRc) ==
    IF probe = "true" THEN NativeSetOpen(nat, h, closeRc, FALSE) ELSE nat
\* the library side of Drop: close when the probe said Ok(true), its result
\* discarded, then delete
DropNative(nat, h, probe, closeRc) ==
    NativeDelete(IF probe = "true" THEN NativeSetOpen(nat, h, closeRc, FALSE) ELSE nat, h)

NativeLog(h, probe) ==
    (IF probe = "true" THEN <<LogEv("close", h)>> ELSE <<>>) \o <<LogEv("delete", h)>>

\* drop_cb(self.cb.take()); drop_cb(self.attach_cb.take()); drop_cb(self.detach_cb.take())
FreeAll(cl, w) ==
    drop_cb(drop_cb(drop_cb(cl, wrapper[w].slot[SlotOrder[1]]),
                    wrapper[w].slot[SlotOrder[2]]),
            wrapper[w].slot[SlotOrder[3]])

FreeLog(w) ==
    SelectSeq([i \in 1..Len(SlotOrder) |-> LogEv("free", wrapper[w].slot[SlotOrder[i]])],
              LAMBDA e : e.arg # NULL)

\* a Drop that releases the slots before it deletes the handle
drop_free_first(w, probe, closeRc) ==
    /\ pc = Idle
    /\ Live(w)
    /\ LET h == wrapper[w].chan
       IN /\ probe \in ProbeOutcomes(wrapper[w].kind, h)
          /\ probe # "true" => closeRc = Ok
          /\ Valid(h) => ~Running(h)
          /\ native' = DropNative(native, h, probe, closeRc)
          /\ deleteCalls' = IF h # NULL THEN [deleteCalls EXCEPT ![h] = @ + 1] ELSE deleteCalls
          /\ staleCalls' = Touch(staleCalls, h)
          /\ closure' = FreeAll(closure, w)
          /\ wrapper' = [wrapper EXCEPT ![w].slot = NoSlots]
          /\ dropLog' = <<LogEv("begin", Cardinality(Populated(w)))>>
                           \o (IF probe = "true" THEN <<LogEv("close", h)>> ELSE <<>>)
                           \o FreeLog(w) \o <<LogEv("delete", h)>>
    /\ pc' = [op |-> "drop_slots", w |-> w]
    /\ UNCHANGED <<restVars, inflight, refs>>

\* Drop, up to the return of the native delete
drop(w, probe, closeRc) ==
    /\ pc = Idle
    /\ Live(w)
    /\ LET h == wrapper[w].chan
       IN /\ probe \in ProbeOutcomes(wrapper[w].kind, h)
          /\ probe # "true" => closeRc = Ok
          /\ Valid(h) => ~Running(h)
          /\ native' = DropNative(native, h, probe, closeRc)
          /\ deleteCalls' = IF h # NULL THEN [deleteCalls EXCEPT ![h] = @ + 1] ELSE deleteCalls
          /\ staleCalls' = Touch(staleCalls, h)
          /\ dropLog' = <<LogEv("begin", Cardinality(Populated(w)))>> \o NativeLog(h, probe)
    /\ pc' = [op |-> "drop_slots", w |-> w]
    /\ UNCHANGED <<restVars, wrapper, closure, inflight, refs>>

\* Drop, from the first drop_cb to the end
drop_slots ==
    /\ pc.op = "drop_slots"
    /\ closure' = FreeAll(closure, pc.w)
    /\ wrapper' = [wrapper EXCEPT ![pc.w].slot = NoSlots, ![pc.w].st = "dropped"]
    /\ dropLog' = dropLog \o FreeLog(pc.w)
    /\ pc' = Idle
    /\ UNCHANGED <<restVars, native, inflight, refs, deleteCalls, staleCalls>>

\* ---------------------------------------------------------------------
\* Trampolines, on the library's thread

\* the library calls the trampoline registered for event s of handle h with
\* the context pointer registered with it; `if !ctx.is_null()` then holds
Invoke(h, s) ==
    /\ inflight = NoCall
    /\ Valid(h)
    /\ native[h].reg[s] # NULL
    /\ inflight' = [h |-> h, slot |-> s, ctx |-> native[h].reg[s]]
    /\ UNCHANGED <<restVars, wrapper, native, closure, pc, refs, deleteCalls, staleCalls, dropLog>>

on_state_change(h) == Invoke(h, "cb")

on_attach(h) == Invoke(h, "attach_cb")

on_detach(h) == Invoke(h, "detach_cb")

\* the closure returns having only queried the view; mem::forget(sensor)
callback_return ==
    /\ inflight # NoCall
    /\ inflight' = NoCall
    /\ UNCHANGED <<restVars, wrapper, native, closure, pc, refs, deleteCalls, staleCalls, dropLog>>

\* an attach or detach closure does std::mem::take(sensor) on its
\* &mut DigitalInput: Default::default() creates a channel that is left in
\* the view and forgotten, and the value taken out is dropped by the closure
callback_take(rc, probe, closeRc) ==
    /\ inflight # NoCall
    /\ inflight.slot \in {"attach_cb", "detach_cb"}
    /\ rc = Ok => HasFreshHandle
    /\ LET h == inflight.h
       IN /\ probe \in ProbeOutcomes("devices", h)
          /\ probe # "true" => closeRc = Ok
          /\ native' = LET n == DropNative(native, h, probe, closeRc)
                       IN IF rc = Ok THEN [n EXCEPT ![FreshHandle].created = TRUE] ELSE n
          /\ deleteCalls' = [deleteCalls EXCEPT ![h] = @ + 1]
          /\ staleCalls' = Touch(staleCalls, h)
    /\ inflight' = NoCall
    /\ UNCHANGED <<restVars, wrapper, closure, pc, refs, dropLog>>

\* ---------------------------------------------------------------------
\* PhidgetRef

\* PhidgetRef::new(w.as_handle())
PhidgetRef_new(w) ==
    /\ pc = Idle
    /\ Live(w) /\ wrapper[w].kind = "devices"
    /\ wrapper[w].chan # NULL
    /\ wrapper[w].chan \notin refs
    /\ refs' = refs \cup {wrapper[w].chan}
    /\ UNCHANGED <<restVars, wrapper, native, closure, inflight, pc, deleteCalls, staleCalls, dropLog>>

\* a query through the view, such as is_open(): one native call with its handle
PhidgetRef_query(h) ==
    /\ pc = Idle
    /\ h \in refs
    /\ staleCalls' = Touch(staleCalls, h)
    /\ UNCHANGED <<restVars, wrapper, native, closure, inflight, pc, refs, deleteCalls, dropLog>>

\* ---------------------------------------------------------------------
\* PhidgetManager (src/src/manager.rs)

\* PhidgetManager::set_on_attach_handler / set_on_detach_handler: native call
\* first, `?` on its code, slot written afterwards
ManagerSetAfterCall(w, s, rc) ==
    /\ pc = Idle
    /\ Live(w) /\ wrapper[w].kind = "manager"
    /\ HasFreshClosure
    /\ LET ctx == FreshClosure
           h == wrapper[w].chan
       IN /\ closure' = [closure EXCEPT ![ctx] = Boxed(w, s, Ret(h, rc))]
          /\ wrapper' = IF Ret(h, rc) = Ok THEN [wrapper EXCEPT ![w].slot[s] = ctx] ELSE wrapper
          /\ native' = NativeSetHandler(native, h, s, ctx, rc)
          /\ staleCalls' = Touch(staleCalls, h)
    /\ UNCHANGED <<restVars, inflight, pc, refs, deleteCalls, dropLog>>

PhidgetManager_set_on_attach_handler(w, rc) == ManagerSetAfterCall(w, "attach_cb", rc)

PhidgetManager_set_on_detach_handler(w, rc) == ManagerSetAfterCall(w, "detach_cb", rc)

\* Drop for PhidgetManager: PhidgetManager_close, its result discarded, and
\* nothing else
PhidgetManager_drop(w, rc) ==
    /\ pc = Idle
    /\ Live(w) /\ wrapper[w].kind = "manager"
    /\ LET h == wrapper[w].chan
       IN /\ native' = NativeSetOpen(native, h, rc, FALSE)
          /\ staleCalls' = Touch(staleCalls, h)
          /\ dropLog' = <<LogEv("begin", Cardinality(Populated(w))), LogEv("close", h)>>
    /\ wrapper' = [wrapper EXCEPT ![w].st = "dropped"]
    /\ UNCHANGED <<restVars, closure, inflight, pc, refs, deleteCalls>>

\* on_attach_device / on_detach_device: the closure gets a PhidgetRef
on_attach_device(h) == Invoke(h, "attach_cb")

on_detach_device(h) == Invoke(h, "detach_cb")

\* ---------------------------------------------------------------------
\* PhidgetRef and GenericPhidget (src/src/phidget.rs)

NoCalls == [made |-> 0, dropped |-> 0, retain |-> 0, retained |-> 0,
            release |-> 0, close |-> 0, delete |-> 0]

\* PhidgetRef::from(phid) / PhidgetRef::new(phid): wraps the pointer
PhidgetRef_from ==
    /\ count.made < MaxViews
    /\ views' = views + 1
    /\ count' = [count EXCEPT !.made = @ + 1]
    /\ UNCHANGED <<devVars, apiVars, trampVars, moreVars, generics>>

\* a PhidgetRef that goes out of scope and released its handle
PhidgetRef_drop_release ==
    /\ views > 0
    /\ views' = views - 1
    /\ count' = [count EXCEPT !.dropped = @ + 1, !.release = @ + 1]
    /\ UNCHANGED <<devVars, apiVars, trampVars, moreVars, generics>>
\* a PhidgetRef goes out of scope: the type has no Drop
PhidgetRef_drop ==
    /\ views > 0
    /\ views' = views - 1
    /\ count' = [count EXCEPT !.dropped = @ + 1]
    /\ UNCHANGED <<devVars, apiVars, trampVars, moreVars, generics>>

\* a promotion that wraps the handle whatever Phidget_retain answered
try_from_unchecked(rc) ==
    /\ views > 0
    /\ views' = views - 1
    /\ generics' = generics + 1
    /\ count' = [count EXCEPT !.retain = @ + 1, !.retained = IF rc = Ok THEN @ + 1 ELSE @]
    /\ UNCHANGED <<devVars, apiVars, trampVars, moreVars>>
\* GenericPhidget::try_from(view): Phidget_retain, `?`, Ok(Self(phid.0));
\* the view is consumed either way
try_from(rc) ==
    /\ views > 0
    /\ views' = views - 1
    /\ generics' = IF rc = Ok THEN generics + 1 ELSE generics
    /\ count' = [count EXCEPT !.retain = @ + 1, !.retained = IF rc = Ok THEN @ + 1 ELSE @]
    /\ UNCHANGED <<devVars, apiVars, trampVars, moreVars>>

\* Drop for GenericPhidget: close when is_open() said Ok(true), its result
\* discarded, then Phidget_release; the handle is the one of the device
\* wrapper, so the probe reads and the close clears that channel's open flag
GenericPhidget_drop(probe, closeRc) ==
    /\ generics > 0
    /\ probe \in {"err", IF chanOpen THEN "true" ELSE "false"}
    /\ probe # "true" => closeRc = Ok
    /\ generics' = generics - 1
    /\ count' = [count EXCEPT !.close = IF probe = "true" THEN @ + 1 ELSE @, !.release = @ + 1]
    /\ chanOpen' = IF probe = "true" /\ closeRc = Ok THEN FALSE ELSE chanOpen
    /\ UNCHANGED <<devVars, trampVars, moreVars, views, last, closedCloses>>

\* ---------------------------------------------------------------------
\* The return codes of the library (src/src/errors.rs)

\* the codes handed to ReturnCode::result: every small c_uint and c_uint's largest
\* value that fits a model integer
MaxCode == 100
BigCode == 2147483647
CUints == 0..MaxCode \cup {BigCode}

\* enum ReturnCode: each variant and its #[repr(u32)] discriminant
Variants == <<
    <<"Ok", 0>>, <<"Perm", 1>>, <<"NoEnt", 2>>, <<"Timeout", 3>>,
    <<"Interrupted", 4>>, <<"Io", 5>>, <<"NoMemory", 6>>, <<"Access", 7>>,
    <<"Fault", 8>>, <<"Busy", 9>>, <<"Exist", 10>>, <<"NotDir", 11>>,
    <<"IsDir", 12>>, <<"Invalid", 13>>, <<"NFile", 14>>, <<"MFile", 15>>,
    <<"NoSPC", 16>>, <<"FBig", 17>>, <<"ROFS", 18>>, <<"RO", 19>>,
    <<"Unsupported", 20>>, <<"InvalidArg", 21>>, <<"Again", 22>>,
    <<"NotEmpty", 26>>, <<"Duplicate", 27>>, <<"Unexpected", 28>>,
    <<"Eof", 31>>, <<"ConnRef", 35>>, <<"BadPassword", 37>>,
    <<"NoDev", 40>>, <<"Pipe", 41>>, <<"Resolv", 44>>,
    <<"NetUnavail", 45>>, <<"ConnReset", 46>>, <<"HostUnreach", 48>>,
    <<"WrongDevice", 50>>, <<"UnknownVal", 51>>, <<"NotAttached", 52>>,
    <<"InvalidPacket", 53>>, <<"TooBig", 54>>, <<"BadVersion", 55>>,
    <<"Closed", 56>>, <<"NotConfigured", 57>>, <<"KeepAlive", 58>>,
    <<"Failsafe", 59>>, <<"UnknownValHigh", 60>>, <<"UnknownValLow", 61>>,
    <<"BadPower", 62>>, <<"PowerCycle", 63>>, <<"HallSensor", 64>>,
    <<"BadCurrent", 65>>, <<"BadConnection", 66>>, <<"Nack", 67>> >>

\* the arms of the match in From<c_uint> for ReturnCode, before the `_` arm
FromArms == <<
    <<0, "Ok">>, <<1, "Perm">>, <<2, "NoEnt">>, <<3, "Timeout">>,
    <<4, "Interrupted">>, <<5, "Io">>, <<6, "NoMemory">>, <<7, "Access">>,
    <<8, "Fault">>, <<9, "Busy">>, <<10, "Exist">>, <<11, "NotDir">>,
    <<12, "IsDir">>, <<13, "Invalid">>, <<14, "NFile">>, <<15, "MFile">>,
    <<16, "NoSPC">>, <<17, "FBig">>, <<18, "ROFS">>, <<19, "RO">>,
    <<20, "Unsupported">>, <<21, "InvalidArg">>, <<22, "Again">>,
    <<26, "NotEmpty">>, <<27, "Duplicate">>, <<28, "Unexpected">>,
    <<31, "Eof">>, <<35, "ConnRef">>, <<37, "BadPassword">>,
    <<40, "NoDev">>, <<41, "Pipe">>, <<44, "Resolv">>,
    <<45, "NetUnavail">>, <<46, "ConnReset">>, <<48, "HostUnreach">>,
    <<50, "WrongDevice">>, <<51, "UnknownVal">>, <<52, "NotAttached">>,
    <<53, "InvalidPacket">>, <<54, "TooBig">>, <<55, "BadVersion">>,
    <<56, "Closed">>, <<57, "NotConfigured">>, <<58, "KeepAlive">>,
    <<59, "Failsafe">>, <<60, "UnknownValHigh">>, <<61, "UnknownValLow">>,
    <<62, "BadPower">>, <<63, "PowerCycle">>, <<64, "HallSensor">>,
    <<65, "BadCurrent">>, <<66, "BadConnection">>, <<67, "Nack">> >>

\* a cast that gives the variant's position in the enum
as_position(k) == (CHOOSE i \in 1..Len(Variants) : Variants[i][1] = k) - 1
\* `kind as c_uint`: the discriminant of the variant
as_c_uint(k) == Variants[CHOOSE i \in 1..Len(Variants) : Variants[i][1] = k][2]

\* a conversion whose `_` arm gives Ok
ReturnCode_from_lenient(val) ==
    IF \E i \in 1..Len(FromArms) : FromArms[i][1] = val
    THEN FromArms[CHOOSE i \in 1..Len(FromArms) : FromArms[i][1] = val][2]
    ELSE "Ok"
\* ReturnCode::from(val): the first arm that matches, `_ => Unexpected` otherwise
ReturnCode_from(val) ==
    IF \E i \in 1..Len(FromArms) : FromArms[i][1] = val
    THEN FromArms[CHOOSE i \in 1..Len(FromArms) : FromArms[i][1] = val][2]
    ELSE "Unexpected"

\* a Result<()>; an Err carries its ReturnCode, written as its discriminant
Err(code) == [kind |-> "Err", code |-> code]
\* ReturnCode::result(rc)
result(rc) ==
    IF rc = 0 THEN [kind |-> "Ok", code |-> Ok] ELSE Err(as_c_uint(ReturnCode_from(rc)))
\* a value that is no Result: Self from new(), () from drop()
Plain == [kind |-> "plain", code |-> Ok]

\* one call of ReturnCode::result
ReturnCode_result(rc) ==
    /\ rcIn' = rc
    /\ rcOut' = result(rc)
    /\ UNCHANGED <<baseVars, callVars, stepperVars, parseVars, strVars, filtVars>>

\* ---------------------------------------------------------------------
\* The queries that return a string (src/src/lib.rs, src/src/phidget.rs)

\* ReturnCode::NoMemory
NoMemory == 6
MaxStrLen == 2
\* bytes of the library's strings: an ASCII letter and a byte no UTF-8 text has
Bytes == {65, 255}
\* U+FFFD REPLACEMENT CHARACTER
Replacement == 65533
CStrs == UNION {[1..n -> Bytes] : n \in 0..MaxStrLen}
\* what the library leaves in the output pointer: null, or a string of its own
NullPtr == [null |-> TRUE, bytes |-> <<>>]
OutPtrs == {NullPtr} \cup {[null |-> FALSE, bytes |-> b] : b \in CStrs}

\* CStr::from_ptr(p).to_string_lossy().into_owned(): a String of the crate's own
to_string_lossy(b) == [i \in 1..Len(b) |-> IF b[i] < 128 THEN b[i] ELSE Replacement]
\* Some(String), None
Some(str) == [some |-> TRUE, s |-> str]
None == [some |-> FALSE, s |-> <<>>]
\* Result<String> and Result<Option<String>>; a String is written Some(String)
StrOk(v) == [kind |-> "Ok", code |-> Ok, val |-> v]
StrErr(code) == [kind |-> "Err", code |-> code, val |-> None]
StrQ(fn, rc, ptr, ret) == [fn |-> fn, rc |-> rc, ptr |-> ptr, ret |-> ret]
NoStrQ == [fn |-> "none"]

\* the callers of get_ffi_string
FfiStringQueries == {"channel_class_name", "channel_name", "device_class_name",
                     "device_name", "library_version", "library_version_number"}

\* get_ffi_string(f): `?` on the code, NoMemory for a null pointer, the copy
get_ffi_string(q, rc, ptr) ==
    /\ strq' = StrQ(q, rc, ptr,
                    IF result(rc).kind = "Err" THEN StrErr(result(rc).code)
                    ELSE IF ptr.null THEN StrErr(NoMemory)
                    ELSE StrOk(Some(to_string_lossy(ptr.bytes))))
    /\ UNCHANGED <<baseVars, callVars, stepperVars, parseVars, codeVars, filtVars>>

\* Phidget::device_label: `?` on the code, None for a null pointer, the copy
Phidget_device_label(rc, ptr) ==
    /\ strq' = StrQ("device_label", rc, ptr,
                    IF result(rc).kind = "Err" THEN StrErr(result(rc).code)
                    ELSE IF ptr.null THEN StrOk(None)
                    ELSE StrOk(Some(to_string_lossy(ptr.bytes))))
    /\ UNCHANGED <<baseVars, callVars, stepperVars, parseVars, codeVars, filtVars>>

\* Phidget::device_sku: `?` on the code, String::new() for a null pointer, the copy
Phidget_device_sku(rc, ptr) ==
    /\ strq' = StrQ("device_sku", rc, ptr,
                    IF result(rc).kind = "Err" THEN StrErr(result(rc).code)
                    ELSE IF ptr.null THEN StrOk(Some(<<>>))
                    ELSE StrOk(Some(to_string_lossy(ptr.bytes))))
    /\ UNCHANGED <<baseVars, callVars, stepperVars, parseVars, codeVars, filtVars>>

\* ---------------------------------------------------------------------
\* The calls of one wrapper and what each returns (src/src/phidget.rs)

\* ReturnCode::InvalidArg
InvalidArg == 21
\* u32::MAX milliseconds are 4294967 s and 295 ms
U32MaxSecs == 4294967
U32MaxMillis == 295
NanosPerMilli == 1000000

\* a millisecond count, written as k * 1000 + r with r < 1000
Millis(k, r) == [k |-> k, r |-> r]
NoArg == Millis(0, 0)
\* Durations of the calls: seconds and sub-second nanoseconds
DurSecs == {0, 1, U32MaxSecs - 1, U32MaxSecs, U32MaxSecs + 1}
DurNanos == {0, 999999, 295000000, 295999999, 296000000, 999999999}
Durations == [secs : DurSecs, nanos : DurNanos]
NoDur == [secs |-> 0, nanos |-> 0]

\* Duration::as_millis(): whole milliseconds
as_millis(to) == Millis(to.secs, to.nanos \div NanosPerMilli)
\* a conversion that keeps the low 32 bits, as `as u32` would
u32_try_from_wrapping(ms) == TRUE
\* u32::try_from(ms).is_ok()
u32_try_from(ms) == ms.k < U32MaxSecs \/ (ms.k = U32MaxSecs /\ ms.r <= U32MaxMillis)


NCall(fn, arg, rc) == [fn |-> fn, arg |-> arg, rc |-> rc]
OpRec(op, to, calls, ret) == [op |-> op, to |-> to, calls |-> calls, ret |-> ret]
NoOp == OpRec("none", NoDur, <<>>, Plain)
\* the wrapper exists: new() has returned it and it was not dropped
Usable == last.op \notin {"none", "drop"}

\* DigitalInput::new(): create, its code not looked at, Self::from(chan)
DigitalInput_new(rc) ==
    /\ ~Usable
    /\ last' = OpRec("new", NoDur, <<NCall("create", NoArg, rc)>>, Plain)
    /\ chanOpen' = FALSE
    /\ closedCloses' = 0
    /\ UNCHANGED <<devVars, refVars, trampVars, moreVars>>

\* Phidget::open
Phidget_open(rc) ==
    /\ Usable
    /\ last' = OpRec("open", NoDur, <<NCall("Phidget_open", NoArg, rc)>>, result(rc))
    /\ chanOpen' = IF rc = Ok THEN TRUE ELSE chanOpen
    /\ closedCloses' = 0
    /\ UNCHANGED <<devVars, refVars, trampVars, moreVars>>

\* Phidget::open_wait(to)
Phidget_open_wait(to, rc) ==
    /\ Usable
    /\ LET ms == as_millis(to)
       IN IF u32_try_from(ms)
          THEN /\ last' = OpRec("open_wait", to,
                                <<NCall("Phidget_openWaitForAttachment", ms, rc)>>, result(rc))
               /\ chanOpen' = IF rc = Ok THEN TRUE ELSE chanOpen
          ELSE /\ rc = Ok
               /\ last' = OpRec("open_wait", to, <<>>, Err(InvalidArg))
               /\ chanOpen' = chanOpen
    /\ closedCloses' = 0
    /\ UNCHANGED <<devVars, refVars, trampVars, moreVars>>

\* a close() that answers Ok by itself once the library has the channel closed
Phidget_close_tracked(rc) ==
    /\ Usable
    /\ ~chanOpen => closedCloses < MaxCloses
    /\ last' = IF chanOpen
               THEN OpRec("close", NoDur, <<NCall("Phidget_close", NoArg, rc)>>, result(rc))
               ELSE OpRec("close", NoDur, <<>>, result(Ok))
    /\ chanOpen' = IF rc = Ok THEN FALSE ELSE chanOpen
    /\ closedCloses' = IF chanOpen THEN 0 ELSE closedCloses + 1
    /\ UNCHANGED <<devVars, refVars, trampVars, moreVars>>
\* Phidget::close
Phidget_close(rc) ==
    /\ Usable
    /\ ~chanOpen => closedCloses < MaxCloses
    /\ last' = OpRec("close", NoDur, <<NCall("Phidget_close", NoArg, rc)>>, result(rc))
    /\ chanOpen' = IF rc = Ok THEN FALSE ELSE chanOpen
    /\ closedCloses' = IF chanOpen THEN 0 ELSE closedCloses + 1
    /\ UNCHANGED <<devVars, refVars, trampVars, moreVars>>

\* the getters Phidget::info() calls, in its order
InfoGetters == <<"channel_name", "channel_class", "channel", "device_name",
                 "device_class", "device_id", "device_label", "serial_number",
                 "is_hub_port_device", "hub_port", "device_sku">>
\* the getters whose native call is made to fail
InfoFail == {i \in 1..Len(InfoGetters) : InfoGetters[i] \in {"channel_name", "hub_port", "device_sku"}}

\* Phidget::info(): each getter with `?`, except hub_port().ok()
Phidget_info(bad) ==
    /\ Usable
    /\ LET stops == {i \in bad : InfoGetters[i] # "hub_port"}
           n == IF stops = {} THEN Len(InfoGetters)
                ELSE CHOOSE i \in stops : \A j \in stops : i <= j
       IN last' = OpRec("info", NoDur,
                        [i \in 1..n |-> NCall(InfoGetters[i], NoArg, IF i \in bad THEN Perm ELSE Ok)],
                        IF stops = {} THEN result(Ok) ELSE Err(Perm))
    /\ closedCloses' = 0
    /\ UNCHANGED <<devVars, refVars, trampVars, moreVars, chanOpen>>

\* Drop for DigitalInput, as native calls: the is_open probe, close when it
\* said Ok(true), delete; no code is looked at beyond the probe's
DigitalInput_drop(probeRc, closeRc, deleteRc) ==
    /\ Usable
    /\ LET closes == probeRc = Ok /\ chanOpen
       IN /\ ~closes => closeRc = Ok
          /\ last' = OpRec("drop", NoDur,
                           <<NCall("Phidget_getIsOpen", NoArg, probeRc)>>
                             \o (IF closes THEN <<NCall("Phidget_close", NoArg, closeRc)>> ELSE <<>>)
                             \o <<NCall("delete", NoArg, deleteRc)>>,
                           Plain)
    /\ chanOpen' = FALSE
    /\ closedCloses' = 0
    /\ UNCHANGED <<devVars, refVars, trampVars, moreVars>>

\* ---------------------------------------------------------------------
\* The trampolines as C functions: any handle, any context, any payload

\* c_int values the library may pass as the state
CStates == {-1, 0, 1, 255, 256, 257}
U8Range == 256
\* `state as u8`
as_u8(state) == state % U8Range

TCall(ev, h, ctx, state) == [ev |-> ev, h |-> h, ctx |-> ctx, state |-> state]
NoTCall == TCall("none", NULL, NULL, 0)
\* cb(&sensor, val) with sensor = Self::from(h)
Seen(ctx, h, val) == [ctx |-> ctx, h |-> h, val |-> val]

\* a trampoline without the null test that calls the closure twice
call_on_state_change_twice(h, ctx, state) ==
    /\ ctx # NULL => hits[ctx] + 1 < MaxHits
    /\ tcall' = TCall("state", h, ctx, state)
    /\ seen' = IF ctx # NULL
               THEN <<Seen(ctx, h, as_u8(state)), Seen(ctx, h, as_u8(state))>>
               ELSE <<>>
    /\ hits' = IF ctx # NULL THEN [hits EXCEPT ![ctx] = @ + 2] ELSE hits
    /\ UNCHANGED <<devVars, refVars, apiVars, moreVars>>
\* DigitalInput::on_state_change(chan, ctx, state)
call_on_state_change(h, ctx, state) ==
    /\ ctx # NULL => hits[ctx] < MaxHits
    /\ tcall' = TCall("state", h, ctx, state)
    /\ seen' = IF ctx # NULL THEN <<Seen(ctx, h, as_u8(state))>> ELSE <<>>
    /\ hits' = IF ctx # NULL THEN [hits EXCEPT ![ctx] = @ + 1] ELSE hits
    /\ UNCHANGED <<devVars, refVars, apiVars, moreVars>>

\* on_attach(phid, ctx) of src/src/phidget.rs: no payload
call_on_attach(h, ctx) ==
    /\ ctx # NULL => hits[ctx] < MaxHits
    /\ tcall' = TCall("attach", h, ctx, 0)
    /\ seen' = IF ctx # NULL THEN <<Seen(ctx, h, 0)>> ELSE <<>>
    /\ hits' = IF ctx # NULL THEN [hits EXCEPT ![ctx] = @ + 1] ELSE hits
    /\ UNCHANGED <<devVars, refVars, apiVars, moreVars>>

\* ---------------------------------------------------------------------
\* The addressing filters of a channel (src/src/phidget.rs)

MaxCalls == 4
\* ReturnCode::Invalid
Invalid == 13
\* the properties of a channel that was just created
ChannelDefault == 0
SerialAny == -1
HubPortAny == -1
DefaultProps == [channel |-> ChannelDefault, serial_number |-> SerialAny,
                 is_hub_port_device |-> 0, hub_port |-> HubPortAny, device_label |-> "any"]
\* the values the calls are made with
Ports == {0, 5}
Timeouts == {[secs |-> 5, nanos |-> 0], [secs |-> U32MaxSecs + 1, nanos |-> 0]}

\* c_int::from(on) and `on != 0`
c_int_from(on) == IF on THEN 1 ELSE 0
\* Result<bool>, Result<i32>
ValOk(v) == [kind |-> "Ok", code |-> Ok, val |-> v]
ValErr(code) == [kind |-> "Err", code |-> code, val |-> 0]
\* a Result<()> as a Result over no value
Unit(res) == [kind |-> res.kind, code |-> res.code, val |-> 0]
\* the code of a call in which the library was not called
NoRc == -1
FCall(op, arg, rc, ret) == [op |-> op, arg |-> arg, rc |-> rc, ret |-> ret]


\* Phidget::set_is_hub_port_device
Phidget_set_is_hub_port_device(on, rc) ==
    /\ Len(fhist) < MaxCalls
    /\ props' = IF rc = Ok THEN [props EXCEPT !.is_hub_port_device = c_int_from(on)] ELSE props
    /\ fhist' = Append(fhist, FCall("set_is_hub_port_device", c_int_from(on), rc, Unit(result(rc))))
    /\ UNCHANGED <<baseVars, callVars, stepperVars, parseVars, codeVars, strVars, fcall>>

\* a setter that answers Ok without calling the library
Phidget_set_hub_port_unsent(port, rc) ==
    /\ Len(fhist) < MaxCalls
    /\ props' = props
    /\ fhist' = Append(fhist, FCall("set_hub_port", port, NoRc, Unit(result(Ok))))
    /\ UNCHANGED <<baseVars, callVars, stepperVars, parseVars, codeVars, strVars, fcall>>
\* Phidget::set_hub_port: `port as c_int` of an i32 is the same number
Phidget_set_hub_port(port, rc) ==
    /\ Len(fhist) < MaxCalls
    /\ props' = IF rc = Ok THEN [props EXCEPT !.hub_port = port] ELSE props
    /\ fhist' = Append(fhist, FCall("set_hub_port", port, rc, Unit(result(rc))))
    /\ UNCHANGED <<baseVars, callVars, stepperVars, parseVars, codeVars, strVars, fcall>>

\* Phidget::hub_port: `?` on the code, then the value the library wrote
Phidget_hub_port(rc) ==
    /\ Len(fhist) < MaxCalls
    /\ fhist' = Append(fhist, FCall("hub_port", 0, rc,
                                    IF result(rc).kind = "Err" THEN ValErr(result(rc).code)
                                    ELSE ValOk(props.hub_port)))
    /\ UNCHANGED <<baseVars, callVars, stepperVars, parseVars, codeVars, strVars, props, fcall>>

\* Phidget::open_wait on this wrapper; the channel that attaches is one that
\* matches the filters, which stay as they were set
open_wait_filtered(to, rc) ==
    /\ Len(fhist) < MaxCalls
    /\ LET ms == as_millis(to)
       IN IF u32_try_from(ms)
          THEN fhist' = Append(fhist, FCall("open_wait", to.secs, rc, Unit(result(rc))))
          ELSE /\ rc = Ok
               /\ fhist' = Append(fhist, FCall("open_wait", to.secs, NoRc, ValErr(InvalidArg)))
    /\ UNCHANGED <<baseVars, callVars, stepperVars, parseVars, codeVars, strVars, props, fcall>>

\* the fields of a PhidgetFilter in the order set_filter looks at them
FilterOrderSwapped == <<"channel", "serial_number", "hub_port", "is_hub_port_device", "device_label">>
FilterOrder == <<"channel", "serial_number", "is_hub_port_device", "hub_port", "device_label">>
Fields == {FilterOrder[i] : i \in 1..Len(FilterOrder)}
\* labels: a plain one and one with a NUL byte inside, which CString::new refuses
Labels == {"lbl", "l-NUL-l"}
\* the filters: which fields are Some, and the values they hold (a label that is
\* None is written "lbl")
Filters == {flt \in [has : SUBSET Fields, device_label : Labels] :
               "device_label" \notin flt.has => flt.device_label = "lbl"}
FilterValue(flt, f) ==
    CASE f = "channel" -> 1
      [] f = "serial_number" -> 12345
      [] f = "is_hub_port_device" -> c_int_from(TRUE)
      [] f = "hub_port" -> 5
      [] f = "device_label" -> flt.device_label

\* what one setter does: CString::new(label)? in set_device_label, then the
\* native call, then ReturnCode::result of its code
Setter(f, flt, bad, pr) ==
    IF f = "device_label" /\ flt.device_label = "l-NUL-l"
    THEN [calls |-> <<>>, ret |-> Err(Invalid), props |-> pr]
    ELSE LET rc == IF f \in bad THEN Perm ELSE Ok
         IN [calls |-> <<NCall(f, FilterValue(flt, f), rc)>>,
             ret |-> result(rc),
             props |-> IF rc = Ok THEN [pr EXCEPT ![f] = FilterValue(flt, f)] ELSE pr]

\* set_filter from its i-th `if let Some(..)` on: the setter with `?`
RECURSIVE SetFilterFrom(_, _, _, _, _)
SetFilterFrom(i, flt, bad, pr, calls) ==
    IF i > Len(FilterOrder) THEN [calls |-> calls, ret |-> result(Ok), props |-> pr]
    ELSE IF FilterOrder[i] \notin flt.has THEN SetFilterFrom(i + 1, flt, bad, pr, calls)
    ELSE LET r == Setter(FilterOrder[i], flt, bad, pr)
         IN IF r.ret.kind = "Err"
            THEN [calls |-> calls \o r.calls, ret |-> r.ret, props |-> r.props]
            ELSE SetFilterFrom(i + 1, flt, bad, r.props, calls \o r.calls)

NoFCall == [ret |-> Plain]

\* DigitalInput::new(): a new channel, no call made on it yet
Filtered_new ==
    /\ fhist # <<>> \/ fcall # NoFCall
    /\ props' = DefaultProps
    /\ fhist' = <<>>
    /\ fcall' = NoFCall
    /\ UNCHANGED <<baseVars, callVars, stepperVars, parseVars, codeVars, strVars>>

\* Phidget::set_filter; each wrapper is followed up to its first call of it
Phidget_set_filter(flt, bad) ==
    /\ fcall = NoFCall
    /\ LET r == SetFilterFrom(1, flt, bad, props, <<>>)
       IN /\ fcall' = [flt |-> flt, bad |-> bad, before |-> props, after |-> r.props,
                     calls |-> r.calls, ret |-> r.ret]
          /\ props' = r.props
    /\ UNCHANGED <<baseVars, callVars, stepperVars, parseVars, codeVars, strVars, fhist>>

\* ---------------------------------------------------------------------
\* Class names parsed from text (src/src/types.rs)
\*
\* A &str is written as the sequence of its characters; a character outside
\* ASCII is written by its code point.

\* U+017F LATIN SMALL LETTER LONG S, U+0131 LATIN SMALL LETTER DOTLESS I and
\* U+212A KELVIN SIGN
LongS == "U+017F"
DotlessI == "U+0131"
KelvinSign == "U+212A"

UpperAscii == <<"A", "B", "C", "D", "E", "F", "G", "H", "I", "J", "K", "L", "M",
                "N", "O", "P", "Q", "R", "S", "T", "U", "V", "W", "X", "Y", "Z">>
LowerAscii == <<"a", "b", "c", "d", "e", "f", "g", "h", "i", "j", "k", "l", "m",
                "n", "o", "p", "q", "r", "s", "t", "u", "v", "w", "x", "y", "z">>
IndexIn(seq, c) == CHOOSE i \in 1..Len(seq) : seq[i] = c
IsIn(seq, c) == \E i \in 1..Len(seq) : seq[i] = c

\* char::to_lowercase: the Unicode lower-case mapping (the long s and the
\* dotless i are lower-case letters already, the Kelvin sign maps to k)
char_to_lowercase(c) ==
    IF IsIn(UpperAscii, c) THEN LowerAscii[IndexIn(UpperAscii, c)]
    ELSE IF c = KelvinSign THEN "k"
    ELSE c
\* char::to_uppercase: the Unicode upper-case mapping
char_to_uppercase(c) ==
    IF IsIn(LowerAscii, c) THEN UpperAscii[IndexIn(LowerAscii, c)]
    ELSE IF c = LongS THEN "S"
    ELSE IF c = DotlessI THEN "I"
    ELSE c

\* a conversion that leaves the text as it is
as_written(s) == s
\* str::to_lowercase
to_lowercase(s) == [i \in 1..Len(s) |-> char_to_lowercase(s[i])]
\* str::to_uppercase
to_uppercase(s) == [i \in 1..Len(s) |-> char_to_uppercase(s[i])]

\* the arms of the match in ChannelClass::from_str, before the `_` arm
ChannelClassArms == <<
    <<<<"n", "o", "t", "h", "i", "n", "g">>, "Nothing">>,
    <<<<"a", "c", "c", "e", "l", "e", "r", "o", "m", "e", "t", "e", "r">>, "Accelerometer">>,
    <<<<"b", "l", "d", "c", "m", "o", "t", "o", "r">>, "BldcMotor">>,
    <<<<"c", "a", "p", "t", "i", "v", "e", "t", "o", "u", "c", "h">>, "CaptiveTouch">>,
    <<<<"c", "u", "r", "r", "e", "n", "t", "i", "n", "p", "u", "t">>, "CurrentInput">>,
    <<<<"c", "u", "r", "r", "e", "n", "t", "o", "u", "t", "p", "u", "t">>, "CurrentOutput">>,
    <<<<"d", "a", "t", "a", "a", "d", "a", "p", "t", "e", "r">>, "DataAdapter">>,
    <<<<"d", "c", "m", "o", "t", "o", "r">>, "DcMotor">>,
    <<<<"d", "i", "c", "t", "i", "o", "n", "a", "r", "y">>, "Dictionary">>,
    <<<<"d", "i", "g", "i", "t", "a", "l", "i", "n", "p", "u", "t">>, "DigitalInput">>,
    <<<<"d", "i", "g", "i", "t", "a", "l", "o", "u", "t", "p", "u", "t">>, "DigitalOutput">>,
    <<<<"d", "i", "s", "t", "a", "n", "c", "e", "s", "e", "n", "s", "o", "r">>, "DistanceSensor">>,
    <<<<"e", "n", "c", "o", "d", "e", "r">>, "Encoder">>,
    <<<<"f", "i", "r", "m", "w", "a", "r", "e", "u", "p", "g", "r", "a", "d", "e">>, "FirmwareUpgrade">>,
    <<<<"f", "r", "e", "q", "u", "e", "n", "c", "y", "c", "o", "u", "n", "t", "e", "r">>, "FrequencyCounter">>,
    <<<<"g", "e", "n", "e", "r", "i", "c">>, "Generic">>,
    <<<<"g", "p", "s">>, "Gps">>,
    <<<<"g", "y", "r", "o", "s", "c", "o", "p", "e">>, "Gyroscope">>,
    <<<<"h", "u", "b">>, "Hub">>,
    <<<<"h", "u", "m", "i", "d", "i", "t", "y", "s", "e", "n", "s", "o", "r">>, "HumiditySensor">>,
    <<<<"i", "r">>, "Ir">>,
    <<<<"l", "c", "d">>, "Lcd">>,
    <<<<"l", "i", "g", "h", "t", "s", "e", "n", "s", "o", "r">>, "LightSensor">>,
    <<<<"m", "a", "g", "n", "e", "t", "o", "m", "e", "t", "e", "r">>, "Magnetometer">>,
    <<<<"m", "e", "s", "h", "d", "o", "n", "g", "l", "e">>, "MeshDongle">>,
    <<<<"m", "o", "t", "o", "r", "p", "o", "s", "i", "t", "i", "o", "n", "c", "o", "n", "t", "r", "o", "l", "l", "e", "r">>, "MotorPositionController">>,
    <<<<"m", "o", "t", "o", "r", "v", "e", "l", "o", "c", "i", "t", "y", "c", "o", "n", "t", "r", "o", "l", "l", "e", "r">>, "MotorVelocityController">>,
    <<<<"p", "h", "s", "e", "n", "s", "o", "r">>, "PhSensor">>,
    <<<<"p", "o", "w", "e", "r", "g", "u", "a", "r", "d">>, "PowerGuard">>,
    <<<<"p", "r", "e", "s", "s", "u", "r", "e", "s", "e", "n", "s", "o", "r">>, "PressureSensor">>,
    <<<<"r", "c", "s", "e", "r", "v", "o">>, "RcServo">>,
    <<<<"r", "e", "s", "i", "s", "t", "a", "n", "c", "e", "i", "n", "p", "u", "t">>, "ResistanceInput">>,
    <<<<"r", "f", "i", "d">>, "Rfid">>,
    <<<<"s", "o", "u", "n", "d", "s", "e", "n", "s", "o", "r">>, "SoundSensor">>,
    <<<<"s", "p", "a", "t", "i", "a", "l">>, "Spatial">>,
    <<<<"s", "t", "e", "p", "p", "e", "r">>, "Stepper">>,
    <<<<"t", "e", "m", "p", "e", "r", "a", "t", "u", "r", "e", "s", "e", "n", "s", "o", "r">>, "TemperatureSensor">>,
    <<<<"v", "o", "l", "t", "a", "g", "e", "i", "n", "p", "u", "t">>, "VoltageInput">>,
    <<<<"v", "o", "l", "t", "a", "g", "e", "o", "u", "t", "p", "u", "t">>, "VoltageOutput">>,
    <<<<"v", "o", "l", "t", "a", "g", "e", "r", "a", "t", "i", "o", "i", "n", "p", "u", "t">>, "VoltageRatioInput">> >>

\* the arms of the match in DeviceClass::from_str, before the `_` arm
DeviceClassArms == <<
    <<<<"n", "o", "t", "h", "i", "n", "g">>, "Nothing">>,
    <<<<"a", "c", "c", "e", "l", "e", "r", "o", "m", "e", "t", "e", "r">>, "Accelerometer">>,
    <<<<"a", "d", "v", "a", "n", "c", "e", "d", "s", "e", "r", "v", "o">>, "AdvancedServo">>,
    <<<<"a", "n", "a", "l", "o", "g">>, "Analog">>,
    <<<<"b", "r", "i", "d", "g", "e">>, "Bridge">>,
    <<<<"d", "a", "t", "a", "a", "d", "a", "p", "t", "e", "r">>, "DataAdapter">>,
    <<<<"d", "i", "c", "t", "i", "o", "n", "a", "r", "y">>, "Dictionary">>,
    <<<<"e", "n", "c", "o", "d", "e", "r">>, "Encoder">>,
    <<<<"f", "i", "r", "m", "w", "a", "r", "e", "u", "p", "g", "r", "a", "d", "e">>, "FirmwareUpgrade">>,
    <<<<"f", "r", "e", "q", "u", "e", "n", "c", "y", "c", "o", "u", "n", "t", "e", "r">>, "FrequencyCounter">>,
    <<<<"g", "e", "n", "e", "r", "i", "c">>, "Generic">>,
    <<<<"g", "p", "s">>, "Gps">>,
    <<<<"h", "u", "b">>, "Hub">>,
    <<<<"i", "n", "t", "e", "r", "f", "a", "c", "e", "k", "i", "t">>, "InterfaceKit">>,
    <<<<"i", "r">>, "Ir">>,
    <<<<"l", "e", "d">>, "Led">>,
    <<<<"m", "e", "s", "h", "d", "o", "n", "g", "l", "e">>, "MeshDongle">>,
    <<<<"m", "o", "t", "o", "r", "c", "o", "n", "t", "r", "o", "l">>, "MotorControl">>,
    <<<<"p", "h", "s", "e", "n", "s", "o", "r">>, "PhSensor">>,
    <<<<"r", "f", "i", "d">>, "Rfid">>,
    <<<<"s", "e", "r", "v", "o">>, "Servo">>,
    <<<<"s", "p", "a", "t", "i", "a", "l">>, "Spatial">>,
    <<<<"s", "t", "e", "p", "p", "e", "r">>, "Steper">>,
    <<<<"t", "e", "m", "p", "e", "r", "a", "t", "u", "r", "e", "s", "e", "n", "s", "o", "r">>, "TemperatreSensor">>,
    <<<<"t", "e", "x", "t", "l", "c", "d">>, "TextLcd">>,
    <<<<"v", "i", "n", "t">>, "Vint">> >>

ClassArms(cls) == IF cls = "ChannelClass" THEN ChannelClassArms ELSE DeviceClassArms

\* Result<ChannelClass>, Result<DeviceClass>
ClassOk(v) == [kind |-> "Ok", code |-> Ok, class |-> v]
ClassErr(code) == [kind |-> "Err", code |-> code, class |-> "none"]

\* from_str(s): match s.to_lowercase().as_str() { .. , _ => Err(InvalidArg) }
from_str(cls, s) ==
    LET arms == ClassArms(cls)
        low == to_lowercase(s)
    IN IF \E i \in 1..Len(arms) : arms[i][1] = low
       THEN ClassOk(arms[CHOOSE i \in 1..Len(arms) : arms[i][1] = low][2])
       ELSE ClassErr(InvalidArg)

\* the variants of ChannelClass with the name #[derive(Debug)] prints for each
ChannelClassVariants == <<
    <<"Nothing", <<"N", "o", "t", "h", "i", "n", "g">>>>,
    <<"Accelerometer", <<"A", "c", "c", "e", "l", "e", "r", "o", "m", "e", "t", "e", "r">>>>,
    <<"BldcMotor", <<"B", "l", "d", "c", "M", "o", "t", "o", "r">>>>,
    <<"CaptiveTouch", <<"C", "a", "p", "t", "i", "v", "e", "T", "o", "u", "c", "h">>>>,
    <<"CurrentInput", <<"C", "u", "r", "r", "e", "n", "t", "I", "n", "p", "u", "t">>>>,
    <<"CurrentOutput", <<"C", "u", "r", "r", "e", "n", "t", "O", "u", "t", "p", "u", "t">>>>,
    <<"DataAdapter", <<"D", "a", "t", "a", "A", "d", "a", "p", "t", "e", "r">>>>,
    <<"DcMotor", <<"D", "c", "M", "o", "t", "o", "r">>>>,
    <<"Dictionary", <<"D", "i", "c", "t", "i", "o", "n", "a", "r", "y">>>>,
    <<"DigitalInput", <<"D", "i", "g", "i", "t", "a", "l", "I", "n", "p", "u", "t">>>>,
    <<"DigitalOutput", <<"D", "i", "g", "i", "t", "a", "l", "O", "u", "t", "p", "u", "t">>>>,
    <<"DistanceSensor", <<"D", "i", "s", "t", "a", "n", "c", "e", "S", "e", "n", "s", "o", "r">>>>,
    <<"Encoder", <<"E", "n", "c", "o", "d", "e", "r">>>>,
    <<"FirmwareUpgrade", <<"F", "i", "r", "m", "w", "a", "r", "e", "U", "p", "g", "r", "a", "d", "e">>>>,
    <<"FrequencyCounter", <<"F", "r", "e", "q", "u", "e", "n", "c", "y", "C", "o", "u", "n", "t", "e", "r">>>>,
    <<"Generic", <<"G", "e", "n", "e", "r", "i", "c">>>>,
    <<"Gps", <<"G", "p", "s">>>>,
    <<"Gyroscope", <<"G", "y", "r", "o", "s", "c", "o", "p", "e">>>>,
    <<"Hub", <<"H", "u", "b">>>>,
    <<"HumiditySensor", <<"H", "u", "m", "i", "d", "i", "t", "y", "S", "e", "n", "s", "o", "r">>>>,
    <<"Ir", <<"I", "r">>>>,
    <<"Lcd", <<"L", "c", "d">>>>,
    <<"LightSensor", <<"L", "i", "g", "h", "t", "S", "e", "n", "s", "o", "r">>>>,
    <<"Magnetometer", <<"M", "a", "g", "n", "e", "t", "o", "m", "e", "t", "e", "r">>>>,
    <<"MeshDongle", <<"M", "e", "s", "h", "D", "o", "n", "g", "l", "e">>>>,
    <<"MotorPositionController", <<"M", "o", "t", "o", "r", "P", "o", "s", "i", "t", "i", "o", "n", "C", "o", "n", "t", "r", "o", "l", "l", "e", "r">>>>,
    <<"MotorVelocityController", <<"M", "o", "t", "o", "r", "V", "e", "l", "o", "c", "i", "t", "y", "C", "o", "n", "t", "r", "o", "l", "l", "e", "r">>>>,
    <<"PhSensor", <<"P", "h", "S", "e", "n", "s", "o", "r">>>>,
    <<"PowerGuard", <<"P", "o", "w", "e", "r", "G", "u", "a", "r", "d">>>>,
    <<"PressureSensor", <<"P", "r", "e", "s", "s", "u", "r", "e", "S", "e", "n", "s", "o", "r">>>>,
    <<"RcServo", <<"R", "c", "S", "e", "r", "v", "o">>>>,
    <<"ResistanceInput", <<"R", "e", "s", "i", "s", "t", "a", "n", "c", "e", "I", "n", "p", "u", "t">>>>,
    <<"Rfid", <<"R", "f", "i", "d">>>>,
    <<"SoundSensor", <<"S", "o", "u", "n", "d", "S", "e", "n", "s", "o", "r">>>>,
    <<"Spatial", <<"S", "p", "a", "t", "i", "a", "l">>>>,
    <<"Stepper", <<"S", "t", "e", "p", "p", "e", "r">>>>,
    <<"TemperatureSensor", <<"T", "e", "m", "p", "e", "r", "a", "t", "u", "r", "e", "S", "e", "n", "s", "o", "r">>>>,
    <<"VoltageInput", <<"V", "o", "l", "t", "a", "g", "e", "I", "n", "p", "u", "t">>>>,
    <<"VoltageOutput", <<"V", "o", "l", "t", "a", "g", "e", "O", "u", "t", "p", "u", "t">>>>,
    <<"VoltageRatioInput", <<"V", "o", "l", "t", "a", "g", "e", "R", "a", "t", "i", "o", "I", "n", "p", "u", "t">>>> >>

\* the variants of DeviceClass with the name #[derive(Debug)] prints for each
DeviceClassVariants == <<
    <<"Nothing", <<"N", "o", "t", "h", "i", "n", "g">>>>,
    <<"Accelerometer", <<"A", "c", "c", "e", "l", "e", "r", "o", "m", "e", "t", "e", "r">>>>,
    <<"AdvancedServo", <<"A", "d", "v", "a", "n", "c", "e", "d", "S", "e", "r", "v", "o">>>>,
    <<"Analog", <<"A", "n", "a", "l", "o", "g">>>>,
    <<"Bridge", <<"B", "r", "i", "d", "g", "e">>>>,
    <<"DataAdapter", <<"D", "a", "t", "a", "A", "d", "a", "p", "t", "e", "r">>>>,
    <<"Dictionary", <<"D", "i", "c", "t", "i", "o", "n", "a", "r", "y">>>>,
    <<"Encoder", <<"E", "n", "c", "o", "d", "e", "r">>>>,
    <<"FirmwareUpgrade", <<"F", "i", "r", "m", "w", "a", "r", "e", "U", "p", "g", "r", "a", "d", "e">>>>,
    <<"FrequencyCounter", <<"F", "r", "e", "q", "u", "e", "n", "c", "y", "C", "o", "u", "n", "t", "e", "r">>>>,
    <<"Generic", <<"G", "e", "n", "e", "r", "i", "c">>>>,
    <<"Gps", <<"G", "p", "s">>>>,
    <<"Hub", <<"H", "u", "b">>>>,
    <<"InterfaceKit", <<"I", "n", "t", "e", "r", "f", "a", "c", "e", "K", "i", "t">>>>,
    <<"Ir", <<"I", "r">>>>,
    <<"Led", <<"L", "e", "d">>>>,
    <<"MeshDongle", <<"M", "e", "s", "h", "D", "o", "n", "g", "l", "e">>>>,
    <<"MotorControl", <<"M", "o", "t", "o", "r", "C", "o", "n", "t", "r", "o", "l">>>>,
    <<"PhSensor", <<"P", "h", "S", "e", "n", "s", "o", "r">>>>,
    <<"Rfid", <<"R", "f", "i", "d">>>>,
    <<"Servo", <<"S", "e", "r", "v", "o">>>>,
    <<"Spatial", <<"S", "p", "a", "t", "i", "a", "l">>>>,
    <<"Steper", <<"S", "t", "e", "p", "e", "r">>>>,
    <<"TemperatreSensor", <<"T", "e", "m", "p", "e", "r", "a", "t", "r", "e", "S", "e", "n", "s", "o", "r">>>>,
    <<"TextLcd", <<"T", "e", "x", "t", "L", "c", "d">>>>,
    <<"Vint", <<"V", "i", "n", "t">>>> >>

ClassVariants(cls) == IF cls = "ChannelClass" THEN ChannelClassVariants ELSE DeviceClassVariants
\* Display::fmt: write!(f, "{:?}", self), the variant's name
fmt(cls, v) ==
    LET vs == ClassVariants(cls)
    IN vs[CHOOSE i \in 1..Len(vs) : vs[i][1] = v][2]
\* v.to_string() of every variant of the two types
DisplayTexts ==
    {fmt("ChannelClass", ChannelClassVariants[i][1]) : i \in 1..Len(ChannelClassVariants)}
        \cup {fmt("DeviceClass", DeviceClassVariants[i][1]) : i \in 1..Len(DeviceClassVariants)}

\* the texts parsed: each name of the two matches and some that are no name,
\* written in lower case, in upper case, with a capital first letter, and with
\* the long s, the dotless i or the Kelvin sign for s, i or k; and each
\* variant as Display prints it
MaxTitle == 1
Title(s, n) == [i \in 1..Len(s) |-> IF i <= n THEN char_to_uppercase(s[i]) ELSE s[i]]
With(s, c, d) == [i \in 1..Len(s) |-> IF s[i] = c THEN d ELSE s[i]]
NoNames == {<<>>, <<"g", "p">>, <<"g", "p", "s", "s">>, <<"s", "t", "e", "p", "e", "r">>}
BaseTexts ==
    {ChannelClassArms[i][1] : i \in 1..Len(ChannelClassArms)}
        \cup {DeviceClassArms[i][1] : i \in 1..Len(DeviceClassArms)} \cup NoNames
Writings(s) ==
    {s, to_uppercase(s), With(s, "s", LongS), With(s, "i", DotlessI), With(s, "k", KelvinSign)}
        \cup {Title(s, n) : n \in 1..MaxTitle}
Texts == UNION {Writings(s) : s \in BaseTexts} \cup DisplayTexts

NoParse == [cls |-> "none"]

\* ChannelClass::from_str
ChannelClass_from_str(s) ==
    /\ parse' = [cls |-> "ChannelClass", s |-> s, ret |-> from_str("ChannelClass", s)]
    /\ UNCHANGED <<baseVars, callVars, stepperVars, codeVars, strVars, filtVars>>

\* DeviceClass::from_str
DeviceClass_from_str(s) ==
    /\ parse' = [cls |-> "DeviceClass", s |-> s, ret |-> from_str("DeviceClass", s)]
    /\ UNCHANGED <<baseVars, callVars, stepperVars, codeVars, strVars, filtVars>>

\* ---------------------------------------------------------------------
\* The Stepper wrapper (src/src/devices/stepper.rs)

MaxStepperClosures == 4
\* the events whose closure is kept in the field `cb`
CbEvents == {"position_change", "velocity_change", "stopped"}
\* the library holds no context pointer for any event
NoReg == {}
\* Phidget_setOnXxxHandler with code 0: the pointer replaces the one held
SetReg(reg, ev, ctx) == {r \in reg : r[1] # ev} \cup {<<ev, ctx>>}

\* Box::into_raw(Box::new(Box::new(cb))): the next address of the heap
StepperFresh == Len(stHeap) + 1
\* drop_cb(slot.take()) on the heap: Box::from_raw of what the slot held
StepperFree(heap, ctx) ==
    IF ctx = NULL THEN heap
    ELSE [heap EXCEPT ![ctx] = [@ EXCEPT !.st = "freed", !.frees = @ + 1]]

\* Stepper::new()
Stepper_new ==
    /\ stLife = "unused"
    /\ stLife' = "live"
    /\ UNCHANGED <<baseVars, callVars, codeVars, strVars, filtVars, parseVars, stSlot, stReg, stHeap>>

\* the three setters of a handler kept in `cb`: box the closure, store the
\* pointer in self.cb over what was there, register it, return the code's result
SetCbHandler(ev, rc) ==
    /\ stLife = "live"
    /\ Len(stHeap) < MaxStepperClosures
    /\ LET ctx == StepperFresh
       IN /\ stHeap' = Append(stHeap, [st |-> "live", ev |-> ev, ok |-> rc = Ok, frees |-> 0])
          /\ stSlot' = [stSlot EXCEPT !.cb = ctx]
          /\ stReg' = IF rc = Ok THEN SetReg(stReg, ev, ctx) ELSE stReg
    /\ UNCHANGED <<baseVars, callVars, codeVars, strVars, filtVars, parseVars, stLife>>

\* Stepper::set_on_position_change_handler
Stepper_set_on_position_change_handler(rc) == SetCbHandler("position_change", rc)
\* Stepper::set_on_stopped_handler
Stepper_set_on_stopped_handler(rc) == SetCbHandler("stopped", rc)
\* Stepper::set_on_velocity_change_handler
Stepper_set_on_velocity_change_handler(rc) == SetCbHandler("velocity_change", rc)

\* phidget::set_on_attach_handler / set_on_detach_handler and the store of
\* its pointer: box the closure, register it, `?`, then self.slot = Some(ctx)
SetFreeFnHandler(ev, slot, rc) ==
    /\ stLife = "live"
    /\ Len(stHeap) < MaxStepperClosures
    /\ LET ctx == StepperFresh
       IN /\ stHeap' = Append(stHeap, [st |-> "live", ev |-> ev, ok |-> rc = Ok, frees |-> 0])
          /\ stSlot' = IF rc = Ok THEN [stSlot EXCEPT ![slot] = ctx] ELSE stSlot
          /\ stReg' = IF rc = Ok THEN SetReg(stReg, ev, ctx) ELSE stReg
    /\ UNCHANGED <<baseVars, callVars, codeVars, strVars, filtVars, parseVars, stLife>>

\* Stepper::set_on_attach_handler
Stepper_set_on_attach_handler(rc) == SetFreeFnHandler("attach", "attach_cb", rc)
\* Stepper::set_on_detach_handler
Stepper_set_on_detach_handler(rc) == SetFreeFnHandler("detach", "detach_cb", rc)

\* Drop for Stepper: close, delete, then drop_cb(self.cb.take()) three times and
\* drop_cb of attach_cb and detach_cb; the second and third take() of cb give None
Stepper_drop ==
    /\ stLife = "live"
    /\ stLife' = "dropped"
    /\ stReg' = NoReg
    /\ LET h1 == StepperFree(stHeap, stSlot.cb)
           h2 == StepperFree(h1, NULL)
           h3 == StepperFree(h2, NULL)
           h4 == StepperFree(h3, stSlot.attach_cb)
       IN stHeap' = StepperFree(h4, stSlot.detach_cb)
    /\ stSlot' = NoSlots
    /\ UNCHANGED <<baseVars, callVars, codeVars, strVars, filtVars, parseVars>>

\* ---------------------------------------------------------------------
\* open_wait on the device wrappers (src/src/phidget.rs)

\* Phidget::open_wait(to): InvalidArg before any native call when the timeout
\* does not fit u32 milliseconds, Phidget_openWaitForAttachment otherwise
open_wait(w, to, rc) ==
    /\ pc = Idle
    /\ Live(w)
    /\ IF u32_try_from(as_millis(to))
       THEN /\ native' = NativeSetOpen(native, wrapper[w].chan, rc, TRUE)
            /\ staleCalls' = Touch(staleCalls, wrapper[w].chan)
       ELSE /\ rc = Ok
            /\ UNCHANGED <<native, staleCalls>>
    /\ UNCHANGED <<restVars, wrapper, closure, inflight, pc, refs, deleteCalls, dropLog>>

\* ---------------------------------------------------------------------
\* Methods that convert their argument before the native call
\* (src/src/phidget.rs, src/src/devices/stepper.rs)

\* no such call was made yet
NoMCall == [fn |-> "none"]
MCall(fn, arg, calls, ret) == [fn |-> fn, arg |-> arg, calls |-> calls, ret |-> ret]

\* let ms = u32::try_from(d.as_millis()).map_err(|_| InvalidArg)?; then the
\* native call with ms, its code through ReturnCode::result
MillisCall(fn, native_fn, d, rc) ==
    /\ LET ms == as_millis(d)
       IN IF u32_try_from(ms)
          THEN mcall' = MCall(fn, d, <<NCall(native_fn, ms, rc)>>, result(rc))
          ELSE /\ rc = Ok
               /\ mcall' = MCall(fn, d, <<>>, Err(InvalidArg))
    /\ UNCHANGED <<baseVars, codeVars, strVars, filtVars, parseVars, stepperVars>>

\* Phidget::set_data_interval(interval)
Phidget_set_data_interval(interval, rc) ==
    MillisCall("set_data_interval", "Phidget_setDataInterval", interval, rc)

\* Stepper::enable_failsafe(failsafe_time)
Stepper_enable_failsafe(failsafe_time, rc) ==
    MillisCall("enable_failsafe", "PhidgetStepper_enableFailsafe", failsafe_time, rc)

\* longest label text, in bytes
MaxLabelLen == 3
\* the bytes of a label: NUL, "A", "B"
LabelBytes == {0, 65, 66}
\* the &str arguments of the label setters
LabelTexts == UNION {[1..n -> LabelBytes] : n \in 0..MaxLabelLen}
\* a conversion that does not look for NUL bytes
CString_new_unchecked(t) == [ok |-> TRUE, bytes |-> t \o <<0>>]
\* CString::new(label): NulError when a byte is 0, else the bytes and a
\* terminating NUL
CString_new(t) ==
    IF \E i \in 1..Len(t) : t[i] = 0
    THEN [ok |-> FALSE, bytes |-> <<>>]
    ELSE [ok |-> TRUE, bytes |-> t \o <<0>>]

\* let label = CString::new(label)?; then the native call with label.as_ptr(),
\* its code through ReturnCode::result; From<NulError> gives Invalid
LabelCall(fn, native_fn, label, rc) ==
    /\ LET c == CString_new(label)
       IN IF c.ok
          THEN mcall' = MCall(fn, label, <<NCall(native_fn, c.bytes, rc)>>, result(rc))
          ELSE /\ rc = Ok
               /\ mcall' = MCall(fn, label, <<>>, Err(Invalid))
    /\ UNCHANGED <<baseVars, codeVars, strVars, filtVars, parseVars, stepperVars>>

\* Phidget::set_device_label(label)
Phidget_set_device_label(label, rc) ==
    LabelCall("set_device_label", "Phidget_setDeviceLabel", label, rc)

\* Phidget::write_device_label(label)
Phidget_write_device_label(label, rc) ==
    LabelCall("write_device_label", "Phidget_writeDeviceLabel", label, rc)

Init ==
    /\ wrapper = [w \in Wrappers |-> [st |-> "unused", kind |-> "devices", chan |-> NULL, slot |-> NoSlots]]
    /\ native = [h \in Handles |-> [created |-> FALSE, deleted |-> FALSE, open |-> FALSE, reg |-> NoSlots]]
    /\ closure = [c \in Closures |-> [st |-> "unalloc", w |-> 0, slot |-> "cb", ok |-> FALSE, frees |-> 0]]
    /\ inflight = NoCall
    /\ pc = Idle
    /\ refs = {}
    /\ deleteCalls = [h \in Handles |-> 0]
    /\ staleCalls = FALSE
    /\ dropLog = <<>>
    /\ views = 0
    /\ generics = 0
    /\ count = NoCalls
    /\ last = NoOp
    /\ chanOpen = FALSE
    /\ closedCloses = 0
    /\ tcall = NoTCall
    /\ seen = <<>>
    /\ hits = [c \in Closures |-> 0]
    /\ rcIn = 0
    /\ rcOut = Plain
    /\ strq = NoStrQ
    /\ props = DefaultProps
    /\ fhist = <<>>
    /\ fcall = NoFCall
    /\ parse = NoParse
    /\ stLife = "unused"
    /\ stSlot = NoSlots
    /\ stReg = NoReg
    /\ stHeap = <<>>
    /\ mcall = NoMCall

\* The current revision of the crate (src/src/devices, src/src/phidget.rs)
Next ==
    \/ \E rc \in RetCodes : new("devices", rc)
    \/ \E w \in Wrappers : from(w)
    \/ \E w \in Wrappers, rc \in RetCodes : open(w, rc)
    \/ \E w \in Wrappers, rc \in RetCodes : close(w, rc)
    \/ \E w \in Wrappers, rc \in RetCodes : set_on_state_change_handler(w, rc)
    \/ \E w \in Wrappers, rc \in RetCodes : set_on_attach_handler(w, rc)
    \/ \E w \in Wrappers, rc \in RetCodes : set_on_detach_handler(w, rc)
    \/ \E w \in Wrappers, p \in {"err", "true", "false"}, rc \in RetCodes : drop(w, p, rc)
    \/ drop_slots
    \/ \E h \in Handles : on_state_change(h)
    \/ \E h \in Handles : on_attach(h)
    \/ \E h \in Handles : on_detach(h)
    \/ callback_return
    \/ \E rc \in RetCodes, p \in {"err", "true", "false"}, crc \in RetCodes : callback_take(rc, p, crc)
    \/ \E w \in Wrappers : PhidgetRef_new(w)
    \/ \E h \in Handles : PhidgetRef_query(h)

Spec == Init /\ [][Next]_vars

\* The current revision in programs that keep one wrapper per handle: no
\* from(handle), no PhidgetRef::new, no mem::take inside a callback
NextOwn ==
    \/ \E rc \in RetCodes : new("devices", rc)
    \/ \E w \in Wrappers, rc \in RetCodes : open(w, rc)
    \/ \E w \in Wrappers, rc \in RetCodes : close(w, rc)
    \/ \E w \in Wrappers, rc \in RetCodes : set_on_state_change_handler(w, rc)
    \/ \E w \in Wrappers, rc \in RetCodes : set_on_attach_handler(w, rc)
    \/ \E w \in Wrappers, rc \in RetCodes : set_on_detach_handler(w, rc)
    \/ \E w \in Wrappers, p \in {"err", "true", "false"}, rc \in RetCodes : drop(w, p, rc)
    \/ drop_slots
    \/ \E h \in Handles : on_state_change(h)
    \/ \E h \in Handles : on_attach(h)
    \/ \E h \in Handles : on_detach(h)
    \/ callback_return

SpecOwn == Init /\ [][NextOwn]_vars

\* The calls of those programs on their own thread, open_wait among them; one
\* handler of each kind: set_on_state_change_handler stores its pointer before
\* the native call, set_on_attach_handler after it
NextReopen ==
    \/ \E rc \in RetCodes : new("devices", rc)
    \/ \E w \in Wrappers, rc \in RetCodes : open(w, rc)
    \/ \E w \in Wrappers, to \in WaitTimes, rc \in RetCodes : open_wait(w, to, rc)
    \/ \E w \in Wrappers, rc \in RetCodes : close(w, rc)
    \/ \E w \in Wrappers, rc \in RetCodes : set_on_state_change_handler(w, rc)
    \/ \E w \in Wrappers, rc \in RetCodes : set_on_attach_handler(w, rc)
    \/ \E w \in Wrappers, p \in {"err", "true", "false"}, rc \in RetCodes : drop(w, p, rc)
    \/ drop_slots

SpecReopen == Init /\ [][NextReopen]_vars

\* The legacy revision (src/src/digital_io.rs): one slot, explicit removal
NextLegacy ==
    \/ \E rc \in RetCodes : new("legacy", rc)
    \/ \E w \in Wrappers, rc \in RetCodes : open(w, rc)
    \/ \E w \in Wrappers, rc \in RetCodes : close(w, rc)
    \/ \E w \in Wrappers, rc \in RetCodes : set_on_state_change_handler(w, rc)
    \/ \E w \in Wrappers, rc \in RetCodes : remove_on_state_change_handler(w, rc)
    \/ drop_callback
    \/ \E w \in Wrappers, rc \in RetCodes : drop(w, "none", rc)
    \/ drop_slots
    \/ \E h \in Handles : on_state_change(h)
    \/ callback_return

SpecLegacy == Init /\ [][NextLegacy]_vars

\* The device manager (src/src/manager.rs)
NextManager ==
    \/ \E rc \in RetCodes : new("manager", rc)
    \/ \E w \in Wrappers, rc \in RetCodes : open(w, rc)
    \/ \E w \in Wrappers, rc \in RetCodes : close(w, rc)
    \/ \E w \in Wrappers, rc \in RetCodes : PhidgetManager_set_on_attach_handler(w, rc)
    \/ \E w \in Wrappers, rc \in RetCodes : PhidgetManager_set_on_detach_handler(w, rc)
    \/ \E w \in Wrappers, rc \in RetCodes : PhidgetManager_drop(w, rc)
    \/ \E h \in Handles : on_attach_device(h)
    \/ \E h \in Handles : on_detach_device(h)
    \/ callback_return

SpecManager == Init /\ [][NextManager]_vars

\* Views handed to callbacks and their promotion, next to the device wrapper
\* that owns the handle (src/src/phidget.rs)
NextRef ==
    \/ PhidgetRef_from
    \/ PhidgetRef_drop
    \/ \E rc \in RetCodes : try_from(rc)
    \/ \E p \in {"err", "true", "false"}, rc \in RetCodes : GenericPhidget_drop(p, rc)
    \/ \E rc \in RetCodes : DigitalInput_new(rc)
    \/ \E rc \in RetCodes : Phidget_open(rc)
    \/ \E rc \in RetCodes : Phidget_close(rc)

SpecRef == Init /\ [][NextRef]_vars

\* One wrapper through its public calls (src/src/phidget.rs)
NextApi ==
    \/ \E rc \in RetCodes : DigitalInput_new(rc)
    \/ \E rc \in RetCodes : Phidget_open(rc)
    \/ \E to \in Durations, rc \in RetCodes : Phidget_open_wait(to, rc)
    \/ \E rc \in RetCodes : Phidget_close(rc)
    \/ \E bad \in SUBSET InfoFail : Phidget_info(bad)
    \/ \E prc \in RetCodes, crc \in RetCodes, drc \in RetCodes : DigitalInput_drop(prc, crc, drc)

SpecApi == Init /\ [][NextApi]_vars

\* The trampolines under every argument the library can pass
NextTramp ==
    \/ \E h \in Handles, ctx \in Closures \cup {NULL}, st \in CStates : call_on_state_change(h, ctx, st)
    \/ \E h \in Handles, ctx \in Closures \cup {NULL} : call_on_attach(h, ctx)

SpecTramp == Init /\ [][NextTramp]_vars

\* ReturnCode::result under every code (src/src/errors.rs)
NextCodes ==
    \E rc \in CUints : ReturnCode_result(rc)

SpecCodes == Init /\ [][NextCodes]_vars

\* The string queries under every answer of the library
NextStrings ==
    \/ \E q \in FfiStringQueries, rc \in RetCodes, p \in OutPtrs : get_ffi_string(q, rc, p)
    \/ \E rc \in RetCodes, p \in OutPtrs : Phidget_device_label(rc, p)
    \/ \E rc \in RetCodes, p \in OutPtrs : Phidget_device_sku(rc, p)

SpecStrings == Init /\ [][NextStrings]_vars

\* A wrapper whose filters are set one by one before it is opened
NextScenario ==
    \/ Filtered_new
    \/ \E on \in BOOLEAN, rc \in RetCodes : Phidget_set_is_hub_port_device(on, rc)
    \/ \E port \in Ports, rc \in RetCodes : Phidget_set_hub_port(port, rc)
    \/ \E rc \in RetCodes : Phidget_hub_port(rc)
    \/ \E to \in Timeouts, rc \in RetCodes : open_wait_filtered(to, rc)

SpecScenario == Init /\ [][NextScenario]_vars

\* A wrapper whose filters are set in one call
NextFilter ==
    \/ Filtered_new
    \/ \E port \in Ports, rc \in RetCodes : Phidget_set_hub_port(port, rc)
    \/ \E flt \in Filters : \E bad \in SUBSET flt.has : Phidget_set_filter(flt, bad)

SpecFilter == Init /\ [][NextFilter]_vars

\* The class names parsed from every text
NextParse ==
    \/ \E s \in Texts : ChannelClass_from_str(s)
    \/ \E s \in Texts : DeviceClass_from_str(s)

SpecParse == Init /\ [][NextParse]_vars

\* One Stepper from new() to its drop
NextStepper ==
    \/ Stepper_new
    \/ \E rc \in RetCodes : Stepper_set_on_position_change_handler(rc)
    \/ \E rc \in RetCodes : Stepper_set_on_stopped_handler(rc)
    \/ \E rc \in RetCodes : Stepper_set_on_velocity_change_handler(rc)
    \/ \E rc \in RetCodes : Stepper_set_on_attach_handler(rc)
    \/ \E rc \in RetCodes : Stepper_set_on_detach_handler(rc)
    \/ Stepper_drop

SpecStepper == Init /\ [][NextStepper]_vars

\* set_data_interval and enable_failsafe, for every Duration and return code
NextMillis ==
    \/ \E d \in Durations, rc \in RetCodes : Phidget_set_data_interval(d, rc)
    \/ \E d \in Durations, rc \in RetCodes : Stepper_enable_failsafe(d, rc)

SpecMillis == Init /\ [][NextMillis]_vars

\* set_device_label and write_device_label, for every label text and return code
NextLabel ==
    \/ \E t \in LabelTexts, rc \in RetCodes : Phidget_set_device_label(t, rc)
    \/ \E t \in LabelTexts, rc \in RetCodes : Phidget_write_device_label(t, rc)

SpecLabel == Init /\ [][NextLabel]_vars

\* ---------------------------------------------------------------------
\* Claims

Allocated(c) == closure[c].st # "unalloc"
Dropped(w) == wrapper[w].st = "dropped"
\* d was boxed by another call on the same slot of the same wrapper as c
SameSlot(c, d) ==
    /\ c # d /\ Allocated(c) /\ Allocated(d)
    /\ closure[c].w = closure[d].w /\ closure[c].slot = closure[d].slot
\* c is the closure of the only set_on_*_handler call made on its slot, and
\* that call succeeded
OnlySuccessfulSet(c) ==
    /\ Allocated(c) /\ closure[c].ok
    /\ \A d \in Closures : ~SameSlot(c, d)

\* C1: after the drop of a wrapper, the closure of a slot that was set by
\* one successful set_on_*_handler call has been freed exactly once.
C1_SingleRelease ==
    \A c \in Closures :
        (OnlySuccessfulSet(c) /\ Dropped(closure[c].w)) => closure[c].frees = 1

C1_Witness ==
    \E c \in Closures :
        /\ OnlySuccessfulSet(c) /\ Dropped(closure[c].w)
        /\ closure[c].st = "freed"

\* c and d were boxed by two successful calls on the same slot of the same
\* wrapper, c by the earlier one
Replaced(c, d) == SameSlot(c, d) /\ c < d /\ closure[c].ok /\ closure[d].ok

\* C2: when two handlers are registered one after the other on the same slot,
\* the first closure has been freed exactly once by the time the second is
\* first invoked, and no invocation that starts after the second registration
\* reaches the first closure.
C2_ReplacedReleased ==
    [][\A c, d \in Closures :
          (Replaced(c, d) /\ inflight = NoCall /\ inflight' # NoCall) =>
              /\ inflight'.ctx # c
              /\ inflight'.ctx = d => closure'[c].frees = 1]_vars

\* C3: a closure whose native set-handler call returned non-zero has been
\* freed exactly once when its wrapper has been dropped, at the latest.
C3_FailedSetReleased ==
    \A c \in Closures :
        (/\ Allocated(c) /\ ~closure[c].ok
         /\ \A d \in Closures : ~SameSlot(c, d)
         /\ Dropped(closure[c].w)) => closure[c].frees = 1

\* C4: no closure is freed while its context pointer is still registered
\* with the library on a handle that has not been deleted.
C4_FreedNotRegistered ==
    \A c \in Closures : \A h \in Handles : \A s \in Slots :
        (closure[c].st = "freed" /\ Valid(h)) => native[h].reg[s] # c

\* positions of the events of one kind in the log of the last destructor
LogIdx(ev) == {i \in 1..Len(dropLog) : dropLog[i].ev = ev}

\* C5: Drop closes first (if it closes), then calls the native delete exactly
\* once, then releases every populated slot; no slot is released before the
\* delete has returned.
C5_DropOrder ==
    /\ dropLog # <<>> =>
          /\ Cardinality(LogIdx("delete")) = 1
          /\ \A i \in LogIdx("close"), j \in LogIdx("delete") : i < j
          /\ \A i \in LogIdx("free"), j \in LogIdx("delete") : j < i
          /\ \A i \in LogIdx("free") : closure[dropLog[i].arg].frees = 1
          /\ pc = Idle => Cardinality(LogIdx("free")) = dropLog[1].arg
    /\ pc.op = "drop_slots" =>
          /\ LogIdx("free") = {}
          /\ \A s \in Populated(pc.w) : closure[wrapper[pc.w].slot[s]].frees = 0
          /\ ~Valid(wrapper[pc.w].chan)

C5_Witness ==
    /\ pc = Idle
    /\ LogIdx("close") # {}
    /\ Cardinality(LogIdx("free")) >= 2

\* C6: a handle has one owning wrapper, and over new, from(handle),
\* as_channel, the trampolines and drop it is passed to the native delete at
\* most once.
C6_SingleOwner ==
    /\ \A v, w \in Wrappers :
          (v # w /\ Live(v) /\ Live(w) /\ wrapper[v].chan # NULL) => wrapper[v].chan # wrapper[w].chan
    /\ \A h \in Handles : deleteCalls[h] <= 1

\* C7: while a trampoline invocation runs, whatever the closure does with
\* the view it is given, the handle of the invocation is not passed to the
\* native delete.
C7_ViewNeverDeletes ==
    [][inflight # NoCall => deleteCalls'[inflight.h] = deleteCalls[inflight.h]]_vars

\* C8: once a handle has been deleted, no object issues a native call with it.
C8_DestroyedTerminal == ~staleCalls

\* C9: a closure is never freed while an invocation of it is executing.
C9_NotFreedWhileRunning ==
    [][\A c \in Closures :
          (inflight.ctx = c /\ closure[c].st = "live") => closure'[c].st = "live"]_vars

\* the native delete issued by the Drop of w has returned
PastDelete(w) == Dropped(w) \/ (pc.op = "drop_slots" /\ pc.w = w)

\* C10: after the native delete of a wrapper's handle has returned, no
\* trampoline invocation for that handle starts.
C10_NoInvokeAfterDelete ==
    [][(inflight = NoCall /\ inflight' # NoCall) =>
          \A w \in Wrappers : PastDelete(w) => wrapper[w].chan # inflight'.h]_vars

C10_Witness ==
    \E w \in Wrappers :
        /\ PastDelete(w) /\ wrapper[w].chan # NULL
        /\ \E s \in Slots : native[wrapper[w].chan].reg[s] # NULL

\* C11: over registration, removal, trampoline invocation and drop, no
\* closure is freed more than once.
C11_NoDoubleFree == \A c \in Closures : closure[c].frees <= 1

C11_Witness ==
    \E c, d \in Closures :
        /\ SameSlot(c, d) /\ Dropped(closure[c].w)
        /\ closure[c].frees = 1 /\ closure[d].frees = 1

\* C12: once a PhidgetManager has been dropped its native handle has been
\* deleted and each closure registered on it has been freed exactly once.
C12_ManagerDropReleases ==
    \A w \in Wrappers :
        (wrapper[w].kind = "manager" /\ Dropped(w)) =>
            /\ wrapper[w].chan # NULL => deleteCalls[wrapper[w].chan] = 1
            /\ \A s \in Populated(w) : closure[wrapper[w].slot[s]].frees = 1

\* C15: the Drop of an owning wrapper attempts close() whenever is_open()
\* reports true or fails; it skips it only when is_open() reports false.
\* is_open() cannot report false on a null handle or on an open channel.
C15_CloseUnlessClosed ==
    [][\A w \in Wrappers :
          (/\ pc = Idle /\ pc'.op = "drop_slots" /\ pc'.w = w
           /\ wrapper[w].kind = "devices"
           /\ \/ wrapper[w].chan = NULL
              \/ Valid(wrapper[w].chan) /\ native[wrapper[w].chan].open)
          => \E i \in 1..Len(dropLog') : dropLog'[i].ev = "close"]_vars

\* C16: a wrapper returned by new() has its callback slots empty and holds a
\* non-null handle for as long as it lives, whatever the native create returned.
C16_NonNullHandle ==
    [][\A w \in Wrappers :
          /\ (wrapper[w].st = "unused" /\ wrapper'[w].st = "live") =>
                (wrapper'[w].slot = NoSlots /\ wrapper'[w].chan # NULL)
          /\ (Live(w) /\ wrapper'[w].st = "live") => wrapper'[w].chan # NULL]_vars

\* the step is a promotion: it calls Phidget_retain
Promotion == count'.retain = count.retain + 1
LifeCalls(c) == <<c.retain, c.release, c.close, c.delete>>

\* C13: constructing and dropping PhidgetRef views issues no native delete,
\* close, retain or release call; only a promotion does.
C13_ViewsAreInert ==
    [][(views' # views /\ ~Promotion) => LifeCalls(count') = LifeCalls(count)]_vars

C13_Witness == views = 0 /\ count.made >= 2 /\ count.dropped >= 2

\* C14: a promotion calls retain once; the drop of the owning handle it
\* yields calls release once and never delete; a failed promotion yields no
\* owner; release calls never outnumber the successful retain calls.
C14_RetainRelease ==
    [][/\ generics' > generics =>
            /\ count'.retain = count.retain + 1 /\ count'.retained = count.retained + 1
            /\ count'.release = count.release
       /\ generics' < generics =>
            /\ count'.release = count.release + 1
            /\ count'.retain = count.retain /\ count'.delete = count.delete
       /\ count'.retained = count.retained => generics' <= generics
       /\ count'.release + generics' = count'.retained
       /\ count'.delete = 0]_vars

C14_Witness ==
    /\ generics = 0 /\ count.release >= 1
    /\ count.retain > count.retained

\* a result the claim allows to be discarded: close() and the is_open() probe
\* inside a destructor
Exempt(op, fn) == op = "drop" /\ fn \in {"Phidget_close", "Phidget_getIsOpen"}

\* C17: every non-zero return code of a native call is returned as Err by
\* the operation that made the call, except for close() and the is_open()
\* probe inside a destructor.
C17_CodesChecked ==
    \A i \in 1..Len(last.calls) :
        (last.calls[i].rc # Ok /\ ~Exempt(last.op, last.calls[i].fn)) =>
            last.ret = Err(last.calls[i].rc)

\* the whole milliseconds of the Duration exceed 2^32 - 1
ExceedsU32(to) ==
    \/ to.secs > U32MaxSecs
    \/ to.secs = U32MaxSecs /\ to.nanos >= (U32MaxMillis + 1) * NanosPerMilli

NativeOf(op) ==
    CASE op = "open" -> "Phidget_open"
      [] op = "open_wait" -> "Phidget_openWaitForAttachment"
      [] op = "close" -> "Phidget_close"
\* the call made exactly its native call and returned the Result of its code
Delegated ==
    /\ Len(last.calls) = 1
    /\ last.calls[1].fn = NativeOf(last.op)
    /\ last.ret = result(last.calls[1].rc)

Bridged(val) ==
    IF tcall'.ctx = NULL
    THEN seen' = <<>> /\ hits' = hits
    ELSE /\ seen' = <<Seen(tcall'.ctx, tcall'.h, val)>>
         /\ hits' = [hits EXCEPT ![tcall'.ctx] = @ + 1]

\* C20: a trampoline called with a non-null context invokes the closure
\* behind it exactly once with a view of the supplied handle and the
\* supplied payload; with a null context it invokes nothing.
C20_PayloadAsSupplied == [][Bridged(tcall'.state)]_vars

\* C20, amended: as above, the payload being the supplied state converted
\* with `as u8`: the values 0..255 (a state of 1 among them) are observed
\* unchanged, any other c_int value is observed modulo 256.
C20_PayloadAsU8 ==
    [][/\ Bridged(tcall'.state % 256)
       /\ tcall'.state \in 0..255 => Bridged(tcall'.state)]_vars

C20_Witness ==
    /\ tcall.ev = "state" /\ tcall.ctx # NULL /\ tcall.state = 1
    /\ seen = <<Seen(tcall.ctx, tcall.h, 1)>>
\* the codes that name a variant of the enum
Table == {Variants[i][2] : i \in 1..Len(Variants)}

\* C21: result is total: 0 gives Ok(()), every other code gives Err(kind) with
\* a kind whose integer value is not 0, and a code that names no variant
\* gives Err(Unexpected)
C21_ResultTotal ==
    rcOut # Plain =>
        /\ rcOut.kind \in {"Ok", "Err"}
        /\ rcIn = 0 <=> rcOut.kind = "Ok"
        /\ rcOut.kind = "Err" => rcOut.code # 0
        /\ rcIn \notin Table => rcOut = Err(as_c_uint("Unexpected"))
\* result was given a code that names no variant
C21_Witness == rcOut # Plain /\ rcIn \notin Table /\ rcIn > 0

\* C22: for a non-zero code of the table the result is Err(k) with k's integer
\* value equal to the code; for 0 it is Ok(())
C22_RoundTrip ==
    rcOut # Plain =>
        /\ rcIn = 0 => rcOut.kind = "Ok"
        /\ (rcIn \in Table /\ rcIn # 0) => rcOut = Err(rcIn)
\* result was given the last code of the table, past the gaps in the numbering
C22_Witness == rcOut # Plain /\ rcIn = 67 /\ rcOut.kind = "Err"

\* C23: a string query returns the native code as its error when that is not
\* zero, whatever the pointer; Err(NoMemory) when the code is zero and the
\* pointer was left null; and otherwise an owned copy of the native string
C23_NullIsNoMemory ==
    strq.fn # "none" =>
        /\ strq.rc # Ok => strq.ret = StrErr(strq.rc)
        /\ (strq.rc = Ok /\ strq.ptr.null) => strq.ret = StrErr(NoMemory)
        /\ (strq.rc = Ok /\ ~strq.ptr.null) =>
               strq.ret = StrOk(Some(to_string_lossy(strq.ptr.bytes)))

\* the first n calls of Scenario A were made, and the library answered with
\* success each time it was called
ScenarioA(n) ==
    /\ Len(fhist) >= n
    /\ \A i \in 1..n : fhist[i].rc \in {Ok, NoRc}
    /\ n >= 1 => fhist[1].op = "set_is_hub_port_device"
    /\ n >= 2 => fhist[2].op = "set_hub_port" /\ fhist[2].arg = 5
    /\ n >= 3 => fhist[3].op = "open_wait" /\ fhist[3].arg = 5
    /\ n >= 4 => fhist[4].op = "hub_port"

\* C24: on a fresh wrapper, set_is_hub_port_device, set_hub_port(5) and
\* open_wait(5 s) on a library that attaches at once give Ok(()) from
\* open_wait and 5 from a following hub_port()
C24_HubPortReadBack ==
    /\ ScenarioA(3) => fhist[3].ret = ValOk(0)
    /\ ScenarioA(4) => fhist[4].ret = ValOk(5)
\* Scenario A was run to its end
C24_Witness == ScenarioA(4) /\ fhist[4].ret = ValOk(5)

\* the order of the fields that C30 states
StatedOrder == <<"channel", "serial_number", "is_hub_port_device", "hub_port", "device_label">>
\* the fields a set_filter call found present, in that order
Present == SelectSeq(StatedOrder, LAMBDA f : f \in fcall.flt.has)
\* the setter of the field fails: the library refuses, or the label is no C string
NotCString(f) == f = "device_label" /\ fcall.flt.device_label = "l-NUL-l"
Refused(f) == f \in fcall.bad /\ ~NotCString(f)
Fails(f) == Refused(f) \/ NotCString(f)
\* how many of the present fields set_filter gets to
Reached ==
    IF \E i \in 1..Len(Present) : Fails(Present[i])
    THEN CHOOSE i \in 1..Len(Present) :
            Fails(Present[i]) /\ \A j \in 1..(i - 1) : ~Fails(Present[j])
    ELSE Len(Present)

\* C30: set_filter calls the setters of the present fields in the order channel,
\* serial number, hub-port-device flag, hub port, label, up to the first that
\* fails, whose error it returns; the fields before it are applied, the later
\* ones are not touched; with no field present it calls nothing and returns Ok
C30_SetFilterOrder ==
    fcall.ret # Plain =>
        LET n == Reached
            failed == n > 0 /\ Fails(Present[n])
            sent == IF failed /\ ~Refused(Present[n]) THEN n - 1 ELSE n
        IN /\ Len(fcall.calls) = sent
           /\ \A i \in 1..sent :
                 /\ fcall.calls[i].fn = Present[i]
                 /\ fcall.calls[i].arg = FilterValue(fcall.flt, Present[i])
           /\ fcall.ret = IF ~failed THEN result(Ok)
                          ELSE IF Refused(Present[n]) THEN Err(Perm) ELSE Err(Invalid)
           /\ \A f \in Fields :
                 fcall.after[f] = IF \E i \in 1..n : Present[i] = f /\ ~Fails(f)
                            THEN FilterValue(fcall.flt, f) ELSE fcall.before[f]
           /\ fcall.flt.has = {} => fcall.calls = <<>> /\ fcall.ret = result(Ok)
\* set_filter stopped at a refused hub port after it had applied two fields
C30_Witness ==
    /\ fcall # NoFCall
    /\ fcall.flt.has = Fields
    /\ fcall.bad = {"hub_port"}
    /\ Len(fcall.calls) = 4
    /\ fcall.before.hub_port = 0
    /\ fcall.after.is_hub_port_device = 1
    /\ fcall.after.hub_port = 0

\* two characters that differ at most in letter case: one is the upper-case or
\* the lower-case form of the other
SameLetter(c, d) ==
    \/ c = d
    \/ char_to_uppercase(c) = d \/ char_to_uppercase(d) = c
    \/ char_to_lowercase(c) = d \/ char_to_lowercase(d) = c
\* two texts that differ only in letter case
CaseOnly(a, b) == Len(a) = Len(b) /\ \A i \in 1..Len(a) : SameLetter(a[i], b[i])
IsAscii(a) == \A i \in 1..Len(a) : IsIn(UpperAscii, a[i]) \/ IsIn(LowerAscii, a[i])
\* the lower-case names of a type, as its match lists them
ClassNames(cls) == {ClassArms(cls)[i][1] : i \in 1..Len(ClassArms(cls))}

\* C25 as stated: every text that differs from the parsed one only in letter
\* case parses to the same result, and a text that matches no class name in
\* any letter case gives Err(InvalidArg)
C25_CaseInsensitive ==
    parse.cls # "none" =>
        /\ \A b \in Texts : CaseOnly(parse.s, b) => from_str(parse.cls, b) = parse.ret
        /\ (\A n \in ClassNames(parse.cls) : ~CaseOnly(parse.s, n))
              => parse.ret = ClassErr(InvalidArg)

\* C25 for ASCII texts: every ASCII text that differs from the parsed ASCII
\* text only in letter case parses to the same result, and a text that matches
\* no class name in any letter case gives Err(InvalidArg)
C25_AsciiCaseInsensitive ==
    parse.cls # "none" =>
        /\ IsAscii(parse.s) =>
              \A b \in Texts : (IsAscii(b) /\ CaseOnly(parse.s, b)) => from_str(parse.cls, b) = parse.ret
        /\ (\A n \in ClassNames(parse.cls) : ~CaseOnly(parse.s, n))
              => parse.ret = ClassErr(InvalidArg)
\* "GPS" was parsed to Gps
C25_Witness == parse # NoParse /\ parse.s = <<"G", "P", "S">> /\ parse.ret = ClassOk("Gps")

\* the closures registered with success for an event
RegisteredFor(ev) == {c \in 1..Len(stHeap) : stHeap[c].ev = ev /\ stHeap[c].ok}

\* C26: when a Stepper on which a position-change, a velocity-change and a
\* stopped handler were each registered once has been dropped, each of the
\* three closures was freed exactly once
C26_StepperFreesAll ==
    (stLife = "dropped" /\ \A ev \in CbEvents : Cardinality(RegisteredFor(ev)) = 1)
        => \A ev \in CbEvents : \A c \in RegisteredFor(ev) : stHeap[c].frees = 1

\* C27: while no call of the wrapper is in progress, the context pointer the
\* library has registered for each event of a live handle is the pointer in
\* the owning wrapper's slot for that event, or both are empty
C27_RegisteredMatchesSlot ==
    pc = Idle =>
        \A w \in Wrappers :
            (Live(w) /\ wrapper[w].chan # NULL /\ Valid(wrapper[w].chan)) =>
                \A s \in Slots : native[wrapper[w].chan].reg[s] = wrapper[w].slot[s]

\* C28: the drop of a promoted GenericPhidget leaves the channel's open state
\* as it was
C28_DropKeepsOpenState ==
    [][generics' < generics => chanOpen' = chanOpen]_vars

\* a step of open, open_wait or close on some wrapper
OpenOrClose ==
    \E w \in Wrappers, rc \in RetCodes :
        \/ open(w, rc)
        \/ close(w, rc)
        \/ \E to \in WaitTimes : open_wait(w, to, rc)

MillisNative(fn) ==
    CASE fn = "set_data_interval" -> "Phidget_setDataInterval"
      [] fn = "enable_failsafe" -> "PhidgetStepper_enableFailsafe"

\* C31: set_data_interval and enable_failsafe with a Duration of at most
\* 2^32 - 1 whole milliseconds make exactly one native call and pass it that
\* millisecond count; with a longer Duration they return InvalidArg and
\* make no native call.
C31_MillisChecked ==
    mcall.fn \in {"set_data_interval", "enable_failsafe"} =>
        IF ExceedsU32(mcall.arg)
        THEN mcall.ret = Err(InvalidArg) /\ mcall.calls = <<>>
        ELSE /\ Len(mcall.calls) = 1
             /\ mcall.calls[1].fn = MillisNative(mcall.fn)
             /\ mcall.calls[1].arg.k = mcall.arg.secs
             /\ mcall.calls[1].arg.r * NanosPerMilli <= mcall.arg.nanos
             /\ mcall.arg.nanos < (mcall.calls[1].arg.r + 1) * NanosPerMilli
             /\ mcall.ret = result(mcall.calls[1].rc)

C31_Witness ==
    /\ mcall.fn = "enable_failsafe"
    /\ mcall.arg = [secs |-> U32MaxSecs, nanos |-> (U32MaxMillis + 1) * NanosPerMilli]
    /\ mcall.ret = Err(InvalidArg)

\* the label text has a NUL byte
HasNul(t) == \E i \in 1..Len(t) : t[i] = 0

\* C32: set_device_label and write_device_label called with a label that has
\* a NUL byte return the error Invalid of the ReturnCode enumeration and make
\* no native call.
C32_NulLabelInvalid ==
    (mcall.fn \in {"set_device_label", "write_device_label"} /\ HasNul(mcall.arg)) =>
        /\ mcall.ret = Err(Invalid)
        /\ \E v \in 1..Len(Variants) : Variants[v][2] = mcall.ret.code
        /\ mcall.calls = <<>>

C32_Witness ==
    /\ mcall.fn = "write_device_label"
    /\ mcall.arg = <<65, 0, 66>>
    /\ mcall.ret = Err(Invalid)

\* the variants of a type
VariantsOf(cls) == {ClassVariants(cls)[i][1] : i \in 1..Len(ClassVariants(cls))}

\* C33: for every variant v of ChannelClass and of DeviceClass, from_str of the
\* text Display prints for v returns Ok(v).
C33_DisplayFromStr ==
    parse.cls # "none" =>
        \A v \in VariantsOf(parse.cls) :
            parse.s = fmt(parse.cls, v) => parse.ret = ClassOk(v)

====
